---- MODULE Spec2Model ----
(***************************************************************************)
(* Text-to-speech delivery subsystem of server/tts_mlx_isolated.py:        *)
(* service instances (TTSMLXIsolated) that share worker subprocesses       *)
(* through the class-level registry _shared_state, the line protocol of    *)
(* _send_command, the worker main loop of kokoro_worker.py, and the        *)
(* run_tts generator with its interruption epoch.                          *)
(*                                                                         *)
(* Granularity.  The coroutines of one event loop are atomic between two   *)
(* suspension points (await / yield).  _send_command runs on an executor   *)
(* thread: taking the lock together with the liveness check and            *)
(* _start_worker is one step, the write is one step, every turn of the     *)
(* read loop is one step, and the reset of the except handler (which runs  *)
(* after the with block has released the lock) is one step.  A worker      *)
(* process answers, chatters and exits in steps of its own.                *)
(***************************************************************************)
EXTENDS Integers, Sequences, FiniteSets, TLC

\* ------------------------------------------------------------------ bounds
MaxCalls == 3        \* run_tts calls of all service instances together
MaxSegs == 3         \* segments of one utterance
MaxAudio == 2        \* bytes of decoded audio in one generate response
MaxInterrupts == 1   \* interruption events per service instance
MaxChatter == 1      \* lines the read loop discards in one exchange
MaxProcs == 3        \* Popen objects in existence at one time
MaxText == 6         \* characters of a text given to _split_text_for_tts
MaxFrames == 6       \* frames given to the sentence aggregator
MaxBuf == 4          \* bytes of decoded audio given to the frame loop
MaxChunk == 3        \* the largest configured frame size
MaxTasks == 3        \* warmup tasks created by /api/warmup requests

Inst == {1, 2}
Pids == 1..MaxProcs
None == 0

\* ------------------------------------------------------------ configuration
KOKORO == "mlx-community/Kokoro-82M-bf16"
QWEN == "mlx-community/Qwen3-TTS-0.6B"
Models == {KOKORO, QWEN}
Voices == {"af_heart", "bf_emma"}
SAMPLE_RATE == 24000

\* model.startswith("mlx-community/Qwen3-TTS-")
IsQwen(model) == model = QWEN

\* self.chunk_size of the base service: 0 when no frame size is configured.
ChunkSizes == {0, 1}

Configs ==
  [model : Models, voice : Voices, language : {"en"},
   sample_rate : {SAMPLE_RATE}, qwen_settings : {"{}"}, chunk_size : ChunkSizes]

DefaultConfig ==
  [model |-> KOKORO, voice |-> "af_heart", language |-> "en",
   sample_rate |-> SAMPLE_RATE, qwen_settings |-> "{}", chunk_size |-> 0]

BuildSignature_VoiceBlind(c) ==
  <<c.model, c.sample_rate, "qwen">>

\* TTSMLXIsolated._build_signature
BuildSignature(c) ==
  IF IsQwen(c.model)
    THEN <<c.model, c.sample_rate, "qwen">>
    ELSE <<c.model, c.voice, c.language, c.sample_rate, c.qwen_settings>>

Sigs == {BuildSignature(c) : c \in Configs}

VARIABLES
  cfg,      \* cfg[i]: constructor arguments of service instance i
  reg,      \* reg[s]: _shared_state[s] without its lock: process, initialized
  lock,     \* lock[s]: the instance whose thread holds _shared_state[s]["lock"]
  waitq,    \* waitq[s]: instances whose command is submitted and not yet locked
  wp,       \* wp[p]: worker process p (pipes, loaded model, exit state)
  svc,      \* svc[i]: service instance i and its current run_tts call
  todo,     \* todo[i]: the utterances instance i is still to be given, each
            \* as the number of segments its text splits into
  events,   \* events[i]: interruption frames instance i has been handed
  seg,      \* a call of _split_text_for_tts: bounds, text, returned segments
  agg,      \* the AssistantSentenceAggregator and the frames fed to it
  warmup    \* the /api/warmup bookkeeping of bot.py and the warmup tasks

vars == <<cfg, reg, lock, waitq, wp, svc, todo, events, seg, agg, warmup>>

Sig(i) == BuildSignature(cfg[i])

\* ------------------------------------------------------------------ records
\* bot.py, lines 77-79: the module's warmup globals before any request.
\* WARMUP_STATE is its "status"; its "error" is None unless the status is
\* "error".  tasks[t] is the t-th task made by asyncio.create_task, reply the
\* last answer of the endpoint with the signature it was asked for and the
\* WARMUP_SIGNATURE it compared with.
NoWarmup ==
  [WARMUP_STATE |-> "idle", WARMUP_SIGNATURE |-> None, WARMUP_TASK |-> None,
   tasks |-> <<>>,
   reply |-> [status |-> "none", signature |-> None, stored |-> None]]

NoCmd == [cmd |-> "none", from |-> 0, call |-> 0, index |-> 0]
NoResult == [success |-> FALSE, audio |-> 0, err |-> "", re |-> NoCmd]
Failure(why) == [success |-> FALSE, audio |-> 0, err |-> why, re |-> NoCmd]

Frame_Untagged(type, index, total, len) ==
  [type |-> type, index |-> 0, total |-> 0, len |-> len, at |-> 0]

\* A frame run_tts yields.  An audio frame holds the len bytes of its
\* segment's audio that start at byte at; index and total are the metadata
\* _attach_sequence_metadata sets (the segment's text is segments[index]).
Frame(type, index, total, len) ==
  [type |-> type, index |-> index, total |-> total, len |-> len, at |-> 0]
TTSStartedFrame == Frame("started", 0, 0, 0)
TTSStoppedFrame == Frame("stopped", 0, 0, 0)
ErrorFrame == Frame("error", 0, 0, 0)

\* A line of a worker's standard output.
Line(t, success, audio, re) ==
  [t |-> t, success |-> success, audio |-> audio, re |-> re]

UnbornProc ==
  [st |-> "unborn", sig |-> <<>>, stdin |-> <<>>, stdout |-> <<>>,
   model |-> FALSE, inits |-> 0, acks |-> 0]

\* A process that has exited and whose pipes nobody reads any more.
DeadProc == [UnbornProc EXCEPT !.st = "dead"]

IdleSvc ==
  [pc |-> "idle", process |-> None, interrupt_id |-> 0, start_interrupt_id |-> 0,
   command |-> NoCmd, skipped |-> 0, result |-> NoResult,
   total_segments |-> 0, index |-> 0, CHUNK_SIZE |-> 0, audio_bytes |-> 0,
   offset |-> 0, out |-> <<>>]

\* Sequences over S of length at most n.
SeqsUpTo(S, n) == UNION {[1..k -> S] : k \in 0..n}

\* ---------------------------------------------------------- text segmentation
\* A text is a sequence of characters: a letter, a blank, a sentence
\* terminator and a clause terminator.
Chars == {"a", " ", ".", ";"}
Texts == SeqsUpTo(Chars, MaxText)

\* sentence_min_chars, sentence_min_words, sentence_max_chars,
\* sentence_max_words of the constructor, scaled to texts of MaxText characters.
SplitBounds ==
  [min_chars : {2}, min_words : {1, 2}, max_chars : {3, 5}, max_words : {2}]

IsSpace(ch) == ch = " "

RECURSIVE LStrip(_)
LStrip(t) == IF t # <<>> /\ IsSpace(Head(t)) THEN LStrip(Tail(t)) ELSE t

RECURSIVE RStrip(_)
RStrip(t) ==
  IF t # <<>> /\ IsSpace(t[Len(t)]) THEN RStrip(SubSeq(t, 1, Len(t) - 1)) ELSE t

\* str.strip()
Strip(t) == LStrip(RStrip(t))

\* re.sub(r"\s+", " ", text)
RECURSIVE CollapseSpaces(_)
CollapseSpaces(t) ==
  IF t = <<>> THEN <<>>
  ELSE IF IsSpace(Head(t)) THEN <<" ">> \o CollapseSpaces(LStrip(t))
  ELSE <<Head(t)>> \o CollapseSpaces(Tail(t))

\* _normalize_text
NormalizeText(t) == Strip(CollapseSpaces(t))

\* str.split(): the maximal runs of characters that are not blanks.
RECURSIVE SplitWords(_)
SplitWords(t) ==
  LET u == LStrip(t) IN
  IF u = <<>> THEN <<>>
  ELSE LET k == CHOOSE n \in 1..Len(u) :
                  /\ \A j \in 1..n : ~IsSpace(u[j])
                  /\ n = Len(u) \/ IsSpace(u[n + 1])
       IN <<SubSeq(u, 1, k)>> \o SplitWords(SubSeq(u, k + 1, Len(u)))

\* " ".join(words)
RECURSIVE JoinWords(_)
JoinWords(words) ==
  IF words = <<>> THEN <<>>
  ELSE IF Len(words) = 1 THEN words[1]
  ELSE words[1] \o <<" ">> \o JoinWords(Tail(words))

\* _is_too_short
IsTooShort(c, t) == Len(SplitWords(t)) < c.min_words

\* _is_too_long
IsTooLong(c, t) == Len(t) > c.max_chars \/ Len(SplitWords(t)) > c.max_words

\* The end of the first match of [.!?]+(?:['")\]]+)?\s+ at or after position
\* start (0 when there is none): the last blank of a run of blanks that
\* follows a terminator.
MatchEnd(t, start) ==
  LET ends == {e \in start..Len(t) :
                 /\ IsSpace(t[e])
                 /\ e = Len(t) \/ ~IsSpace(t[e + 1])
                 /\ \E d \in start..(e - 1) :
                      t[d] = "." /\ \A j \in (d + 1)..e : IsSpace(t[j])}
  IN IF ends = {} THEN 0 ELSE CHOOSE e \in ends : \A f \in ends : e <= f

RECURSIVE SentencesFrom(_, _)
SentencesFrom(t, start) ==
  LET end == MatchEnd(t, start) IN
  IF end = 0
    THEN LET tail == Strip(SubSeq(t, start, Len(t))) IN
         IF tail = <<>> THEN <<>> ELSE <<tail>>
    ELSE LET segment == Strip(SubSeq(t, start, end)) IN
         (IF segment = <<>> THEN <<>> ELSE <<segment>>) \o SentencesFrom(t, end + 1)

RECURSIVE SentencesFrom_NoTail(_, _)
SentencesFrom_NoTail(t, start) ==
  LET end == MatchEnd(t, start) IN
  IF end = 0 THEN <<>>
    ELSE LET segment == Strip(SubSeq(t, start, end)) IN
         (IF segment = <<>> THEN <<>> ELSE <<segment>>)
           \o SentencesFrom_NoTail(t, end + 1)

SplitIntoSentences_NoTail(t) == SentencesFrom_NoTail(t, 1)

\* _split_into_sentences
SplitIntoSentences(t) == SentencesFrom(t, 1)

\* _merge_short_segments: the loop, with its buffer and its result so far.
RECURSIVE MergeFrom(_, _, _, _)
MergeFrom(c, segments, buffer, merged) ==
  IF segments = <<>>
    THEN IF buffer # <<>> THEN Append(merged, buffer) ELSE merged
    ELSE LET segment == Head(segments) IN
         IF buffer = <<>> THEN MergeFrom(c, Tail(segments), segment, merged)
         ELSE IF IsTooShort(c, buffer)
           THEN MergeFrom(c, Tail(segments),
                          Strip(buffer \o <<" ">> \o segment), merged)
           ELSE MergeFrom(c, Tail(segments), segment, Append(merged, buffer))

MergeShortSegments_None(c, segments) == segments

\* _merge_short_segments
MergeShortSegments(c, segments) == MergeFrom(c, segments, <<>>, <<>>)

\* word.endswith((";", ":", "—", "-"))
ChunkEnders == {";"}

\* _chunk_by_words: the loop over the words, with current and chunks.
RECURSIVE ChunkFrom(_, _, _, _)
ChunkFrom(c, words, current, chunks) ==
  IF words = <<>>
    THEN IF current # <<>> THEN Append(chunks, Strip(JoinWords(current)))
                           ELSE chunks
    ELSE LET word == Head(words)
             candidate == JoinWords(Append(current, word)) IN
         IF current = <<>> THEN ChunkFrom(c, Tail(words), <<word>>, chunks)
         ELSE IF Len(candidate) > c.max_chars \/ Len(current) + 1 > c.max_words
           THEN ChunkFrom(c, Tail(words), <<word>>,
                          Append(chunks, Strip(JoinWords(current))))
         ELSE IF Len(candidate) >= c.min_chars /\ word[Len(word)] \in ChunkEnders
           THEN ChunkFrom(c, Tail(words), <<>>, Append(chunks, Strip(candidate)))
         ELSE ChunkFrom(c, Tail(words), Append(current, word), chunks)

\* _chunk_by_words
ChunkByWords(c, t) == ChunkFrom(c, SplitWords(t), <<>>, <<>>)

\* _split_text_for_tts, lines 193-198: segments that are too long are chunked.
RECURSIVE Expand(_, _)
Expand(c, segments) ==
  IF segments = <<>> THEN <<>>
  ELSE (IF IsTooLong(c, Head(segments)) THEN ChunkByWords(c, Head(segments))
                                        ELSE <<Head(segments)>>)
         \o Expand(c, Tail(segments))

\* _split_text_for_tts, line 199: [segment.strip() for ... if segment.strip()]
StripAll(segments) ==
  SelectSeq([k \in 1..Len(segments) |-> Strip(segments[k])],
            LAMBDA x : x # <<>>)

\* _split_text_for_tts
SplitTextForTts(c, text) ==
  LET normalized == NormalizeText(text) IN
  IF normalized = <<>> THEN <<>>
  ELSE LET segments == SplitIntoSentences(normalized) IN
       IF segments = <<>> THEN <<normalized>>
       ELSE LET expanded == StripAll(Expand(c, MergeShortSegments(c, segments)))
                final == MergeShortSegments(c, expanded)
            IN IF final = <<>> THEN <<normalized>> ELSE final

\* No call of _split_text_for_tts.
NoSplit ==
  [stage |-> "none", bounds |-> [min_chars |-> 20, min_words |-> 3,
                                 max_chars |-> 220, max_words |-> 40],
   text |-> <<>>, segments |-> <<>>]

\* --------------------------------------------------- sentence aggregator
\* The text of the LLM text frames fed to the aggregator.
Fragments == {<<"a", ".">>, <<" ", "a">>, <<" ", "a", ".">>, <<" ">>}

\* min_words as given to the constructor.
MinWordsArgs == {0, 3}

\* A frame the aggregator pushes downstream.
Pushed(type, text) == [type |-> type, text |-> text]

\* __init__, lines 33-39, with the frames pushed by the last process_frame
\* call (pushed), the kind of frame it was given (last), the number of frames
\* processed (n), since the last response start or reset the text appended
\* to the buffer (fed) and the texts pushed from it (sent), and the text the
\* last reset discarded (dropped).
NewAggregator(enabled, min_words) ==
  [enabled |-> enabled,
   min_words |-> IF min_words < 1 THEN 1 ELSE min_words,
   buffer |-> <<>>, carry |-> <<>>, started |-> FALSE,
   pushed |-> <<>>, last |-> "none", n |-> 0, fed |-> <<>>, sent |-> <<>>,
   dropped |-> <<>>]

NoAggregator == NewAggregator(FALSE, 3)

IsShort_Chars(a, t) == Len(t) < a.min_words

\* _is_short
IsShort(a, t) == Len(SplitWords(t)) < a.min_words

\* pipecat.utils.string.match_endofsentence, as _pop_sentence uses it: the
\* end of the first sentence of the text without its trailing blanks (a
\* terminator followed by a blank or by the end of the text), 0 if none.
MatchEndOfSentence(t) ==
  LET u == RStrip(t)
      ends == {e \in 1..Len(u) :
                 u[e] = "." /\ (e = Len(u) \/ IsSpace(u[e + 1]))}
  IN IF ends = {} THEN 0 ELSE CHOOSE e \in ends : \A f \in ends : e <= f

RECURSIVE ReadyFrom_KeepCarry(_, _)
ReadyFrom_KeepCarry(a, ready) ==
  LET end == MatchEndOfSentence(a.buffer) IN
  IF end = 0 THEN [a EXCEPT !.pushed = ready]
  ELSE LET popped == Strip(SubSeq(a.buffer, 1, end))
           rest == SubSeq(a.buffer, end + 1, Len(a.buffer))
           sentence == IF a.carry # <<>> THEN Strip(a.carry \o <<" ">> \o popped)
                                         ELSE popped
       IN IF popped = <<>> THEN ReadyFrom_KeepCarry([a EXCEPT !.buffer = rest], ready)
          ELSE IF IsShort(a, sentence)
            THEN ReadyFrom_KeepCarry([a EXCEPT !.buffer = rest, !.carry = sentence], ready)
            ELSE ReadyFrom_KeepCarry([a EXCEPT !.buffer = rest],
                                     Append(ready, Pushed("text", sentence)))

\* _emit_ready_sentences, lines 76-83, with _pop_sentence and
\* _merge_or_buffer: the loop that fills ready.
RECURSIVE ReadyFrom(_, _)
ReadyFrom(a, ready) ==
  LET end == MatchEndOfSentence(a.buffer) IN
  IF end = 0 THEN [a EXCEPT !.pushed = ready]
  ELSE LET popped == Strip(SubSeq(a.buffer, 1, end))
           rest == SubSeq(a.buffer, end + 1, Len(a.buffer))
           sentence == IF a.carry # <<>> THEN Strip(a.carry \o <<" ">> \o popped)
                                         ELSE popped
       IN IF popped = <<>> THEN ReadyFrom([a EXCEPT !.buffer = rest], ready)
          ELSE IF IsShort(a, sentence)
            THEN ReadyFrom([a EXCEPT !.buffer = rest, !.carry = sentence], ready)
            ELSE ReadyFrom([a EXCEPT !.buffer = rest, !.carry = <<>>],
                           Append(ready, Pushed("text", sentence)))

\* _emit_ready_sentences
EmitReadySentences(a) == ReadyFrom([a EXCEPT !.pushed = <<>>], <<>>)

FlushRemaining_DropShort(a) ==
  LET remaining == IF a.carry # <<>> THEN Strip(a.carry \o <<" ">> \o a.buffer)
                                     ELSE Strip(a.buffer) IN
  [a EXCEPT !.buffer = <<>>, !.carry = <<>>,
            !.pushed = IF remaining # <<>> /\ ~IsShort(a, remaining)
                         THEN Append(@, Pushed("text", remaining)) ELSE @]

\* _flush_remaining
FlushRemaining(a) ==
  LET remaining == IF a.carry # <<>> THEN Strip(a.carry \o <<" ">> \o a.buffer)
                                     ELSE Strip(a.buffer) IN
  [a EXCEPT !.buffer = <<>>, !.carry = <<>>,
            !.pushed = IF remaining # <<>>
                         THEN Append(@, Pushed("text", remaining)) ELSE @]

Reset_KeepCarry(a) == [a EXCEPT !.buffer = <<>>, !.started = FALSE]

\* _reset
Reset(a) == [a EXCEPT !.buffer = <<>>, !.carry = <<>>, !.started = FALSE]

AggregationEnabled_Always(a) == TRUE

\* self._enabled, lines 116 and 132
AggregationEnabled(a) == a.enabled

\* The texts of the text frames in a sequence of pushed frames.
TextsOf(frames) ==
  LET t == SelectSeq(frames, LAMBDA f : f.type = "text") IN
  [k \in 1..Len(t) |-> t[k].text]

\* process_frame has handled a frame of the given kind and left the
\* aggregator as a, whose pushed holds what the call pushed.
Processed(a, kind) ==
  agg' = [a EXCEPT !.last = kind, !.n = agg.n + 1,
                   !.sent = IF kind \in {"text", "end"} /\ agg.started
                              THEN @ \o TextsOf(a.pushed) ELSE @]

AggInterruption_Swallow(kind) ==
  /\ agg.n < MaxFrames
  /\ Processed([Reset(agg) EXCEPT !.pushed = <<>>,
                                  !.fed = <<>>, !.sent = <<>>,
                                  !.dropped = Strip(agg.carry \o agg.buffer)],
               kind)
  /\ UNCHANGED <<warmup, seg, events, cfg, todo, reg, lock, waitq, wp, svc>>

\* process_frame, lines 98-106: StartInterruptionFrame or CancelFrame.
AggInterruption(kind) ==
  /\ agg.n < MaxFrames
  /\ Processed([Reset(agg) EXCEPT !.pushed = <<Pushed(kind, <<>>)>>,
                                  !.fed = <<>>, !.sent = <<>>,
                                  !.dropped = Strip(agg.carry \o agg.buffer)],
               kind)
  /\ UNCHANGED <<warmup, seg, events, cfg, todo, reg, lock, waitq, wp, svc>>

\* process_frame, lines 108-113: LLMFullResponseStartFrame.
AggResponseStart ==
  /\ agg.n < MaxFrames
  /\ Processed([agg EXCEPT !.buffer = <<>>, !.carry = <<>>, !.started = TRUE,
                           !.pushed = <<Pushed("start", <<>>)>>,
                           !.fed = <<>>, !.sent = <<>>, !.dropped = <<>>],
               "start")
  /\ UNCHANGED <<warmup, seg, events, cfg, todo, reg, lock, waitq, wp, svc>>

AggResponseEnd_NoFlush ==
  /\ agg.n < MaxFrames
  /\ LET flushed == IF AggregationEnabled(agg)
                      THEN EmitReadySentences(agg)
                      ELSE [agg EXCEPT !.pushed = <<>>]
     IN Processed([flushed EXCEPT !.started = FALSE,
                                  !.pushed = Append(@, Pushed("end", <<>>))], "end")
  /\ UNCHANGED <<warmup, seg, events, cfg, todo, reg, lock, waitq, wp, svc>>

\* process_frame, lines 115-123: LLMFullResponseEndFrame or EndFrame.
AggResponseEnd ==
  /\ agg.n < MaxFrames
  /\ LET flushed == IF AggregationEnabled(agg)
                      THEN FlushRemaining(EmitReadySentences(agg))
                      ELSE FlushRemaining([agg EXCEPT !.pushed = <<>>])
     IN Processed([flushed EXCEPT !.started = FALSE,
                                  !.pushed = Append(@, Pushed("end", <<>>))], "end")
  /\ UNCHANGED <<warmup, seg, events, cfg, todo, reg, lock, waitq, wp, svc>>

AggText_BufferAlways(text) ==
  /\ agg.n < MaxFrames
  /\ LET appended == [agg EXCEPT !.buffer = @ \o text, !.fed = @ \o text,
                                 !.pushed = <<>>]
     IN IF AggregationEnabled(agg)
          THEN Processed(EmitReadySentences(appended), "text")
          ELSE Processed(appended, "text")
  /\ UNCHANGED <<warmup, seg, events, cfg, todo, reg, lock, waitq, wp, svc>>

\* process_frame, lines 125-135: TextFrame.
AggText(text) ==
  /\ agg.n < MaxFrames
  /\ IF ~agg.started
       THEN Processed([agg EXCEPT !.pushed = <<Pushed("text", text)>>], "text")
       ELSE LET appended == [agg EXCEPT !.buffer = @ \o text, !.fed = @ \o text,
                                        !.pushed = <<>>]
            IN IF AggregationEnabled(agg)
                 THEN Processed(EmitReadySentences(appended), "text")
                 ELSE Processed(appended, "text")
  /\ UNCHANGED <<warmup, seg, events, cfg, todo, reg, lock, waitq, wp, svc>>

\* process_frame, line 137: a frame of any other type.
AggOther ==
  /\ agg.n < MaxFrames
  /\ Processed([agg EXCEPT !.pushed = <<Pushed("other", <<>>)>>], "other")
  /\ UNCHANGED <<warmup, seg, events, cfg, todo, reg, lock, waitq, wp, svc>>

\* Two instances built with the same arguments are given MaxCalls one-segment
\* utterances between them.
Init ==
  /\ warmup = NoWarmup
  /\ cfg = [i \in Inst |-> DefaultConfig]
  /\ todo \in {w \in [Inst -> SeqsUpTo({1}, MaxCalls)] :
                 Len(w[1]) + Len(w[2]) = MaxCalls /\ Len(w[1]) >= Len(w[2])}
  /\ reg = [s \in Sigs |-> [process |-> None, initialized |-> FALSE]]
  /\ lock = [s \in Sigs |-> None]
  /\ waitq = [s \in Sigs |-> <<>>]
  /\ wp = [p \in Pids |-> UnbornProc]
  /\ svc = [i \in Inst |-> IdleSvc]
  /\ events = [i \in Inst |-> 0]
  /\ seg = NoSplit
  /\ agg = NoAggregator

\* ----------------------------------------------------------- process state
\* Popen.poll() is not None: the process has exited.
Poll(p) == wp[p].st = "dead"

\* A process that was spawned and has not exited.
Running(p) == wp[p].st \in {"running", "eof"}

\* _send_command, line 286: not self._process or self._process.poll() is not None
NeedsStart(i) == svc[i].process = None \/ Poll(svc[i].process)

\* subprocess.Popen gives a new object: an identity no handle refers to.  The
\* handle the caller is about to overwrite (i's own, the registry's) is free.
FreePids ==
  {p \in Pids : /\ wp[p].st \in {"unborn", "dead"}
                /\ \A j \in Inst : svc[j].process # p
                /\ \A s \in Sigs : reg[s].process # p}
NewPid == CHOOSE p \in FreePids : \A q \in FreePids : p <= q

CanAcquire_NoLock(s) == TRUE

\* _send_command, line 285: with state["lock"]
CanAcquire(s) == lock[s] = None

\* The registry entry after _reset_worker_state (lines 277-278).
Cleared == [process |-> None, initialized |-> FALSE]

TerminateWorker_Leak(i) == wp

\* _reset_worker_state, lines 266-272: terminate(), wait(timeout=5), kill().
\* Whether the process exits within the grace period or is killed after it,
\* it has exited when the reset is over.
TerminateWorker(i) ==
  IF svc[i].process # None /\ ~Poll(svc[i].process)
    THEN [wp EXCEPT ![svc[i].process] = DeadProc]
    ELSE wp

ShouldSkip_KeepStatus(command, line) ==
  line.t \in {"blank", "nonjson"}

\* _send_command, lines 335-353: the lines the read loop discards.
ShouldSkip(command, line) ==
  \/ line.t = "blank"
  \/ line.t = "nonjson"
  \/ command.cmd = "generate" /\ line.success /\ line.audio = 0

\* The dict _send_command returns for a worker line it does not discard.
ResultOf(line) ==
  [success |-> line.success, audio |-> line.audio,
   err |-> IF line.success THEN "" ELSE "worker", re |-> line.re]

\* The thread of instance i returns r and leaves the with block.
Return(i, r) ==
  /\ svc' = [svc EXCEPT ![i].pc = "returned", ![i].result = r, ![i].skipped = 0]
  /\ lock' = [lock EXCEPT ![Sig(i)] = None]

\* ------------------------------------------------------------ _send_command
Acquire_ClearOnFailure(i) ==
  LET s == Sig(i) IN
  /\ svc[i].pc = "submitted"
  /\ CanAcquire(s)
  /\ waitq' = [waitq EXCEPT ![s] = SelectSeq(@, LAMBDA j : j # i)]
  /\ IF ~NeedsStart(i)
       THEN /\ lock' = [lock EXCEPT ![s] = i]
            /\ svc' = [svc EXCEPT ![i].pc = "locked"]
            /\ UNCHANGED <<warmup, reg, wp>>
       ELSE IF reg[s].process # None /\ ~Poll(reg[s].process)
         THEN /\ lock' = [lock EXCEPT ![s] = i]
              /\ svc' = [svc EXCEPT ![i].pc = "locked", ![i].process = reg[s].process]
              /\ UNCHANGED <<warmup, reg, wp>>
         ELSE \/ /\ FreePids # {}
                 /\ wp' = [wp EXCEPT ![NewPid] =
                             [UnbornProc EXCEPT !.st = "running", !.sig = s]]
                 /\ reg' = [reg EXCEPT ![s] =
                              [process |-> NewPid, initialized |-> FALSE]]
                 /\ lock' = [lock EXCEPT ![s] = i]
                 /\ svc' = [svc EXCEPT ![i].pc = "locked", ![i].process = NewPid]
              \/ /\ svc' = [svc EXCEPT ![i].pc = "returned",
                                       ![i].result = Failure("Failed to start worker")]
                 /\ reg' = [reg EXCEPT ![s] = Cleared]
                 /\ UNCHANGED <<warmup, wp, lock>>
  /\ UNCHANGED <<warmup, seg, agg, events, cfg, todo>>

\* Lines 284-289 with _start_worker (lines 223-261): the thread takes the
\* lock, then reuses its own handle, reuses the registry's live process,
\* spawns a new one, or fails to spawn.
Acquire(i) ==
  LET s == Sig(i) IN
  /\ svc[i].pc = "submitted"
  /\ CanAcquire(s)
  /\ waitq' = [waitq EXCEPT ![s] = SelectSeq(@, LAMBDA j : j # i)]
  /\ IF ~NeedsStart(i)
       THEN /\ lock' = [lock EXCEPT ![s] = i]
            /\ svc' = [svc EXCEPT ![i].pc = "locked"]
            /\ UNCHANGED <<warmup, reg, wp>>
       ELSE IF reg[s].process # None /\ ~Poll(reg[s].process)
         THEN /\ lock' = [lock EXCEPT ![s] = i]
              /\ svc' = [svc EXCEPT ![i].pc = "locked", ![i].process = reg[s].process]
              /\ UNCHANGED <<warmup, reg, wp>>
         ELSE \/ /\ FreePids # {}
                 /\ wp' = [wp EXCEPT ![NewPid] =
                             [UnbornProc EXCEPT !.st = "running", !.sig = s]]
                 /\ reg' = [reg EXCEPT ![s] =
                              [process |-> NewPid, initialized |-> FALSE]]
                 /\ lock' = [lock EXCEPT ![s] = i]
                 /\ svc' = [svc EXCEPT ![i].pc = "locked", ![i].process = NewPid]
              \/ /\ svc' = [svc EXCEPT ![i].pc = "returned",
                                       ![i].result = Failure("Failed to start worker")]
                 /\ UNCHANGED <<warmup, reg, wp, lock>>
  /\ UNCHANGED <<warmup, seg, agg, events, cfg, todo>>

\* Lines 292-295: write and flush the command.  Writing to the pipe of a
\* process that has exited raises; the with block releases the lock and the
\* except handler (line 364) runs next.
Write(i) ==
  LET p == svc[i].process IN
  /\ svc[i].pc = "locked"
  /\ IF Poll(p)
       THEN /\ svc' = [svc EXCEPT ![i].pc = "except"]
            /\ lock' = [lock EXCEPT ![Sig(i)] = None]
            /\ UNCHANGED wp
       ELSE /\ wp' = [wp EXCEPT ![p].stdin =
                             IF wp[p].st = "running" THEN Append(@, svc[i].command) ELSE @]
            /\ svc' = [svc EXCEPT ![i].pc = "reading"]
            /\ UNCHANGED lock
  /\ UNCHANGED <<warmup, seg, agg, events, cfg, todo, reg, waitq>>

\* Lines 364-374: the except handler resets the worker state after the lock
\* has been released.
ExceptReset(i) ==
  /\ svc[i].pc = "except"
  /\ wp' = TerminateWorker(i)
  /\ reg' = [reg EXCEPT ![Sig(i)] = Cleared]
  /\ svc' = [svc EXCEPT ![i].pc = "returned", ![i].process = None,
                        ![i].result = Failure("exception")]
  /\ UNCHANGED <<warmup, seg, agg, events, cfg, todo, lock, waitq>>

Timeout_ResetAll(i) ==
  /\ svc[i].pc = "reading"
  /\ wp' = TerminateWorker(i)
  /\ reg' = [s \in Sigs |-> Cleared]
  /\ svc' = [svc EXCEPT ![i].pc = "returned", ![i].process = None,
                        ![i].skipped = 0,
                        ![i].result = Failure("Worker response timeout")]
  /\ lock' = [lock EXCEPT ![Sig(i)] = None]
  /\ UNCHANGED <<warmup, seg, agg, events, cfg, todo, waitq>>

\* Lines 315-318: the deadline has passed.
Timeout(i) ==
  /\ svc[i].pc = "reading"
  /\ wp' = TerminateWorker(i)
  /\ reg' = [reg EXCEPT ![Sig(i)] = Cleared]
  /\ svc' = [svc EXCEPT ![i].pc = "returned", ![i].process = None,
                        ![i].skipped = 0,
                        ![i].result = Failure("Worker response timeout")]
  /\ lock' = [lock EXCEPT ![Sig(i)] = None]
  /\ UNCHANGED <<warmup, seg, agg, events, cfg, todo, waitq>>

\* Lines 335-362: the line just read is discarded (the loop goes on, and
\* svc[i].skipped counts it) or returned.
Deliver(i, line) ==
  IF ShouldSkip(svc[i].command, line)
    THEN /\ svc' = [svc EXCEPT ![i].skipped = @ + 1]
         /\ UNCHANGED lock
    ELSE Return(i, ResultOf(line))

\* Line 324: the next line is a response the worker printed.
ReadLine(i) ==
  LET p == svc[i].process IN
  /\ svc[i].pc = "reading"
  /\ wp[p].stdout # <<>>
  /\ Head(wp[p].stdout).t # "partial"
  /\ wp' = [wp EXCEPT ![p].stdout = Tail(@)]
  /\ Deliver(i, Head(wp[p].stdout))
  /\ UNCHANGED <<warmup, seg, agg, events, cfg, todo, reg, waitq>>

\* Line 324: the next line is output that is no response: a blank line,
\* library chatter, or, in a generate exchange, a success status without
\* audio.  The worker printed it ahead of whatever else is in the pipe.
ReadChatter(i) ==
  /\ svc[i].pc = "reading"
  /\ svc[i].skipped < MaxChatter
  /\ \E t \in {"blank", "nonjson", "status"} :
       /\ t = "status" => svc[i].command.cmd = "generate"
       /\ Deliver(i, IF t = "status" THEN Line("json", TRUE, 0, svc[i].command)
                                     ELSE Line(t, FALSE, 0, NoCmd))
  /\ UNCHANGED <<warmup, seg, agg, events, cfg, todo, reg, waitq, wp>>

ReadEof_AlwaysReset(i) ==
  LET p == svc[i].process IN
  /\ svc[i].pc = "reading"
  /\ wp[p].stdout = <<>>
  /\ wp[p].st \in {"eof", "dead"}
  /\ wp' = [TerminateWorker(i) EXCEPT ![p] = DeadProc]
  /\ reg' = [reg EXCEPT ![Sig(i)] = Cleared]
  /\ svc' = [svc EXCEPT ![i].pc = "returned", ![i].process = None,
                        ![i].skipped = 0,
                        ![i].result = Failure(IF Poll(p) THEN "Worker process died"
                                                         ELSE "No response from worker")]
  /\ lock' = [lock EXCEPT ![Sig(i)] = None]
  /\ UNCHANGED <<warmup, seg, agg, events, cfg, todo, waitq>>

\* Lines 325-333: readline() returns "" at end of stream.
ReadEof(i) ==
  LET p == svc[i].process IN
  /\ svc[i].pc = "reading"
  /\ wp[p].stdout = <<>>
  /\ wp[p].st \in {"eof", "dead"}
  /\ IF Poll(p)
       THEN /\ wp' = [TerminateWorker(i) EXCEPT ![p] = DeadProc]
            /\ reg' = [reg EXCEPT ![Sig(i)] = Cleared]
            /\ svc' = [svc EXCEPT ![i].pc = "returned", ![i].process = None,
                                  ![i].skipped = 0,
                                  ![i].result = Failure("Worker process died")]
            /\ lock' = [lock EXCEPT ![Sig(i)] = None]
       ELSE /\ Return(i, Failure("No response from worker"))
            /\ UNCHANGED <<warmup, wp, reg>>
  /\ UNCHANGED <<warmup, seg, agg, events, cfg, todo, waitq>>

\* ------------------------------------------------------------ worker process
\* kokoro_worker.py main(): one command is read and one JSON object printed.
\* initialize() loads the model before it can reject the voice, so a failed
\* init may leave the model loaded; generate() needs a loaded model.
WorkerRespond(p) ==
  LET c == Head(wp[p].stdin) IN
  /\ wp[p].st = "running"
  /\ wp[p].stdin # <<>>
  /\ \/ /\ c.cmd = "init"
        /\ \/ wp' = [wp EXCEPT ![p].stdin = Tail(@), ![p].model = TRUE,
                               ![p].inits = @ + 1, ![p].acks = @ + 1,
                               ![p].stdout = Append(@, Line("json", TRUE, 0, c))]
           \/ \E loaded \in {wp[p].model, TRUE} :
                wp' = [wp EXCEPT ![p].stdin = Tail(@), ![p].model = loaded,
                                 ![p].inits = @ + 1,
                                 ![p].stdout = Append(@, Line("json", FALSE, 0, c))]
     \/ /\ c.cmd = "generate"
        /\ IF ~wp[p].model
             THEN wp' = [wp EXCEPT ![p].stdin = Tail(@),
                                   ![p].stdout = Append(@, Line("json", FALSE, 0, c))]
             ELSE \/ \E n \in 1..MaxAudio :
                       wp' = [wp EXCEPT ![p].stdin = Tail(@),
                                        ![p].stdout = Append(@, Line("json", TRUE, n, c))]
                  \/ wp' = [wp EXCEPT ![p].stdin = Tail(@),
                                      ![p].stdout = Append(@, Line("json", FALSE, 0, c))]
  /\ UNCHANGED <<warmup, seg, agg, events, cfg, todo, reg, lock, waitq, svc>>

\* An exchange with process p is open.
BeingRead(p) ==
  \E i \in Inst : svc[i].pc \in {"reading", "blocked"} /\ svc[i].process = p

\* Process p after it has closed its output (st = "eof") or exited ("dead"):
\* it answers nothing any more, so what it holds and what is written to it
\* is of no consequence; what it had printed stays readable for the caller
\* that is reading from it.
Exited(p, st) ==
  [DeadProc EXCEPT !.st = st, !.sig = IF st = "eof" THEN wp[p].sig ELSE <<>>,
                   !.stdout = IF BeingRead(p) THEN wp[p].stdout ELSE <<>>]

\* The process exits on its own, or closes its output first.  An output
\* closed between two exchanges is noticed in the next one, so it is closed
\* here once that exchange is open.
WorkerExit(p) ==
  /\ \/ wp[p].st = "running" /\ \E st \in {"eof", "dead"} :
          /\ st = "eof" => BeingRead(p)
          /\ wp' = [wp EXCEPT ![p] = Exited(p, st)]
     \/ wp[p].st = "eof" /\ wp' = [wp EXCEPT ![p] = Exited(p, "dead")]
  /\ UNCHANGED <<warmup, seg, agg, events, cfg, todo, reg, lock, waitq, svc>>

\* ------------------------------------------------------------------ run_tts
Interrupted_Never(s) == FALSE

\* run_tts, lines 523, 541, 544, 553: self._interrupt_id != start_interrupt_id
Interrupted(s) == s.interrupt_id # s.start_interrupt_id

Finish_NoStop(s, frames) ==
  [IdleSvc EXCEPT !.pc = "done", !.process = s.process,
                  !.interrupt_id = s.interrupt_id,
                  !.start_interrupt_id = s.start_interrupt_id,
                  !.out = s.out \o frames]

\* run_tts, lines 564-572: the generator ends; the finally block yields
\* TTSStoppedFrame after whatever the handler yielded.
Finish(s, frames) ==
  [IdleSvc EXCEPT !.pc = "done", !.process = s.process,
                  !.interrupt_id = s.interrupt_id,
                  !.start_interrupt_id = s.start_interrupt_id,
                  !.out = s.out \o frames \o <<TTSStoppedFrame>>]

\* loop.run_in_executor(None, self._send_command, payload)
Submit(s, i, cmd) ==
  [s EXCEPT !.pc = "submitted", !.skipped = 0,
            !.command = [cmd |-> cmd, from |-> i, call |-> Len(todo[i]),
                         index |-> s.index]]

\* run_tts, lines 538-543: the head of the segment loop for segment s.index.
\* The generator ends after the last segment or when the epoch has moved;
\* otherwise _generate_audio_bytes submits a generate command.
LoopHead(i, s) ==
  IF s.index >= s.total_segments \/ Interrupted(s)
    THEN /\ svc' = [svc EXCEPT ![i] = Finish(s, <<>>)]
         /\ UNCHANGED waitq
    ELSE /\ svc' = [svc EXCEPT ![i] = Submit(s, i, "generate")]
         /\ waitq' = [waitq EXCEPT ![Sig(i)] = Append(@, i)]

\* run_tts, lines 512-518: the epoch is captured and TTSStartedFrame yielded.
RunTts(i) ==
  /\ svc[i].pc = "idle"
  /\ todo[i] # <<>>
  /\ todo' = [todo EXCEPT ![i] = Tail(@)]
  /\ svc' = [svc EXCEPT ![i].pc = "started",
                ![i].start_interrupt_id = svc[i].interrupt_id,
                ![i].total_segments = Head(todo[i]), ![i].index = 0,
                ![i].CHUNK_SIZE = cfg[i].chunk_size, ![i].audio_bytes = 0,
                ![i].offset = 0, ![i].out = <<TTSStartedFrame>>]
  /\ UNCHANGED <<warmup, seg, agg, events, cfg, reg, lock, waitq, wp>>

\* _initialize_if_needed, lines 378-416, called from run_tts line 521: the
\* registry's flag is read without the lock; init is submitted when it is unset.
InitializeIfNeeded(i) ==
  /\ svc[i].pc = "started"
  /\ IF reg[Sig(i)].initialized
       THEN LoopHead(i, svc[i])
       ELSE /\ svc' = [svc EXCEPT ![i] = Submit(svc[i], i, "init")]
            /\ waitq' = [waitq EXCEPT ![Sig(i)] = Append(@, i)]
  /\ UNCHANGED <<warmup, seg, agg, events, cfg, todo, reg, lock, wp>>

InitDone_MarkAlways(i) ==
  /\ svc[i].pc = "returned"
  /\ svc[i].command.cmd = "init"
  /\ reg' = [reg EXCEPT ![Sig(i)].initialized = TRUE]
  /\ IF svc[i].result.success
       THEN LoopHead(i, svc[i])
       ELSE /\ svc' = [svc EXCEPT ![i] = Finish(svc[i], <<ErrorFrame>>)]
            /\ UNCHANGED waitq
  /\ UNCHANGED <<warmup, seg, agg, events, cfg, todo, lock, wp>>

\* _initialize_if_needed, lines 418-432, resumed on the event loop with the
\* result of init, then run_tts lines 521-543.
InitDone(i) ==
  /\ svc[i].pc = "returned"
  /\ svc[i].command.cmd = "init"
  /\ IF svc[i].result.success
       THEN /\ reg' = [reg EXCEPT ![Sig(i)].initialized = TRUE]
            /\ LoopHead(i, svc[i])
       ELSE /\ svc' = [svc EXCEPT ![i] = Finish(svc[i], <<ErrorFrame>>)]
            /\ UNCHANGED <<warmup, reg, waitq>>
  /\ UNCHANGED <<warmup, seg, agg, events, cfg, todo, lock, wp>>

GenerateDone_IgnoreFailure(i) ==
  LET s == svc[i] IN
  /\ s.pc = "returned"
  /\ s.command.cmd = "generate"
  /\ svc' = [svc EXCEPT ![i] =
       IF Interrupted(s) THEN Finish(s, <<>>)
       ELSE [s EXCEPT !.pc = "frames", !.audio_bytes = s.result.audio, !.offset = 0,
                      !.CHUNK_SIZE = IF @ <= 0
                                       THEN (IF s.result.audio > 0 THEN s.result.audio ELSE 1)
                                       ELSE @]]
  /\ UNCHANGED <<warmup, seg, agg, events, cfg, todo, reg, lock, waitq, wp>>

\* _generate_audio_bytes, lines 496-499, then run_tts lines 544-551.
GenerateDone(i) ==
  LET s == svc[i] IN
  /\ s.pc = "returned"
  /\ s.command.cmd = "generate"
  /\ svc' = [svc EXCEPT ![i] =
       IF ~s.result.success THEN Finish(s, <<ErrorFrame>>)
       ELSE IF Interrupted(s) THEN Finish(s, <<>>)
       ELSE [s EXCEPT !.pc = "frames", !.audio_bytes = s.result.audio, !.offset = 0,
                      !.CHUNK_SIZE = IF @ <= 0
                                       THEN (IF s.result.audio > 0 THEN s.result.audio ELSE 1)
                                       ELSE @]]
  /\ UNCHANGED <<warmup, seg, agg, events, cfg, todo, reg, lock, waitq, wp>>

SliceLen_Padded(n, start, size) == size

\* run_tts, line 555: len(audio_bytes[start:start + size]) for a buffer of n
\* bytes; the slice stops at the end of the buffer.
SliceLen(n, start, size) ==
  IF n - start < size THEN n - start ELSE size

\* run_tts, lines 552-562: one turn of the frame loop.
EmitFrame(i) ==
  LET s == svc[i]
      len == SliceLen(s.audio_bytes, s.offset, s.CHUNK_SIZE) IN
  /\ s.pc = "frames"
  /\ s.offset < s.audio_bytes
  /\ svc' = [svc EXCEPT ![i] =
       IF Interrupted(s) THEN Finish(s, <<>>)
       ELSE [s EXCEPT !.offset = @ + s.CHUNK_SIZE,
                      !.out = Append(@, [Frame("audio", s.index, s.total_segments, len)
                                           EXCEPT !.at = s.offset])]]
  /\ UNCHANGED <<warmup, seg, agg, events, cfg, todo, reg, lock, waitq, wp>>

\* run_tts, lines 552 and 538-543: the frame loop is exhausted and the
\* segment loop moves on.
NextSegment(i) ==
  /\ svc[i].pc = "frames"
  /\ svc[i].offset >= svc[i].audio_bytes
  /\ LoopHead(i, [svc[i] EXCEPT !.index = @ + 1])
  /\ UNCHANGED <<warmup, seg, agg, events, cfg, todo, reg, lock, wp>>

\* The consumer has taken the frames of the finished generator; its locals
\* are gone.
Close(i) ==
  /\ svc[i].pc = "done"
  /\ svc' = [svc EXCEPT ![i] =
       [IdleSvc EXCEPT !.process = svc[i].process,
                       !.interrupt_id = svc[i].interrupt_id]]
  /\ UNCHANGED <<warmup, seg, agg, events, cfg, todo, reg, lock, waitq, wp>>

HandleInterruption_Reset(i) ==
  /\ events[i] < MaxInterrupts
  /\ events' = [events EXCEPT ![i] = @ + 1]
  /\ svc' = [svc EXCEPT ![i].interrupt_id = @ + 1]
  /\ wp' = TerminateWorker(i)
  /\ reg' = [reg EXCEPT ![Sig(i)] = Cleared]
  /\ UNCHANGED <<warmup, seg, agg, cfg, todo, lock, waitq>>

HandleInterruption_OnlyWhileSpeaking(i) ==
  /\ events[i] < MaxInterrupts
  /\ events' = [events EXCEPT ![i] = @ + 1]
  /\ svc' = [svc EXCEPT ![i].interrupt_id =
                IF svc[i].pc \in {"idle", "done"} THEN @ ELSE @ + 1]
  /\ UNCHANGED <<warmup, seg, agg, cfg, todo, reg, lock, waitq, wp>>

\* _handle_interruption, lines 434-437
HandleInterruption(i) ==
  /\ events[i] < MaxInterrupts
  /\ events' = [events EXCEPT ![i] = @ + 1]
  /\ svc' = [svc EXCEPT ![i].interrupt_id = @ + 1]
  /\ UNCHANGED <<warmup, seg, agg, cfg, todo, reg, lock, waitq, wp>>

\* ------------------------------------------------------------ specification
Next ==
  \/ \E i \in Inst : RunTts(i)
  \/ \E i \in Inst : InitializeIfNeeded(i)
  \/ \E i \in Inst : Acquire(i)
  \/ \E i \in Inst : Write(i)
  \/ \E i \in Inst : ExceptReset(i)
  \/ \E i \in Inst : Timeout(i)
  \/ \E i \in Inst : ReadLine(i)
  \/ \E i \in Inst : ReadChatter(i)
  \/ \E i \in Inst : ReadEof(i)
  \/ \E i \in Inst : InitDone(i)
  \/ \E i \in Inst : GenerateDone(i)
  \/ \E i \in Inst : EmitFrame(i)
  \/ \E i \in Inst : NextSegment(i)
  \/ \E i \in Inst : Close(i)
  \/ \E p \in Pids : WorkerRespond(p)
  \/ \E p \in Pids : WorkerExit(p)

Spec == Init /\ [][Next]_vars

\* One instance is given one utterance of up to MaxSegs segments and may be
\* interrupted at any moment.
InitTts ==
  /\ warmup = NoWarmup
  /\ cfg \in [Inst -> {c \in Configs : c.model = KOKORO /\ c.voice = "af_heart"}]
  /\ todo \in {w \in [Inst -> SeqsUpTo(1..MaxSegs, 1)] : Len(w[1]) = 1 /\ Len(w[2]) = 0}
  /\ reg = [s \in Sigs |-> [process |-> None, initialized |-> FALSE]]
  /\ lock = [s \in Sigs |-> None]
  /\ waitq = [s \in Sigs |-> <<>>]
  /\ wp = [p \in Pids |-> UnbornProc]
  /\ svc = [i \in Inst |-> IdleSvc]
  /\ events = [i \in Inst |-> 0]
  /\ seg = NoSplit
  /\ agg = NoAggregator

NextTts ==
  \/ Next
  \/ \E i \in Inst : HandleInterruption(i)

SpecTts == InitTts /\ [][NextTts]_vars

\* Two instances are given one one-segment utterance each; the second is
\* built with any model and voice, the first with any model (which of the
\* two voices it has makes no difference).
InitSig ==
  /\ warmup = NoWarmup
  /\ cfg \in {f \in [Inst -> {c \in Configs : c.chunk_size = 0}] :
                 f[1].voice = "af_heart"}
  /\ todo = [i \in Inst |-> <<1>>]
  /\ reg = [s \in Sigs |-> [process |-> None, initialized |-> FALSE]]
  /\ lock = [s \in Sigs |-> None]
  /\ waitq = [s \in Sigs |-> <<>>]
  /\ wp = [p \in Pids |-> UnbornProc]
  /\ svc = [i \in Inst |-> IdleSvc]
  /\ events = [i \in Inst |-> 0]
  /\ seg = NoSplit
  /\ agg = NoAggregator

SpecSig == InitSig /\ [][Next]_vars

\* The worker writes output that does not end in a newline and hangs (a
\* library printing a message piece by piece, a worker stuck in native
\* code): it reads and prints nothing more until it exits.
WorkerPartial(p) ==
  /\ wp[p].st = "running"
  /\ BeingRead(p)
  /\ wp' = [wp EXCEPT ![p].st = "stalled",
                       ![p].stdout = Append(@, Line("partial", FALSE, 0, NoCmd))]
  /\ UNCHANGED <<warmup, seg, agg, events, cfg, todo, reg, lock, waitq, svc>>

\* The hung worker exits.
StalledExit(p) ==
  /\ wp[p].st = "stalled"
  /\ wp' = [wp EXCEPT ![p] = Exited(p, "dead")]
  /\ UNCHANGED <<warmup, seg, agg, events, cfg, todo, reg, lock, waitq, svc>>

\* Lines 320-324: select() reports the pipe readable as soon as it holds a
\* byte, and readline() then waits for the newline or the end of the stream;
\* the deadline of line 316 is not looked at while it waits.
ReadPartial(i) ==
  LET p == svc[i].process IN
  /\ svc[i].pc = "reading"
  /\ wp[p].stdout # <<>>
  /\ Head(wp[p].stdout).t = "partial"
  /\ svc' = [svc EXCEPT ![i].pc = "blocked"]
  /\ UNCHANGED <<warmup, seg, agg, events, cfg, todo, reg, lock, waitq, wp>>

\* Lines 324 and 335-343: the stream has ended, readline() returns what
\* there was of the line, which is no JSON and is discarded; the loop goes
\* on.
Unblock(i) ==
  LET p == svc[i].process IN
  /\ svc[i].pc = "blocked"
  /\ wp[p].st = "dead"
  /\ wp' = [wp EXCEPT ![p].stdout = Tail(@)]
  /\ svc' = [svc EXCEPT ![i].pc = "reading", ![i].skipped = @ + 1]
  /\ UNCHANGED <<warmup, seg, agg, events, cfg, todo, reg, lock, waitq>>

\* The steps of the executor thread of instance i that wait for nothing but
\* the lock, the stream or the clock.
ThreadStep(i) ==
  Acquire(i) \/ Write(i) \/ ExceptReset(i) \/ Timeout(i) \/ Unblock(i)

\* Two instances built with the same arguments are given one one-segment
\* utterance each.
InitLive ==
  /\ warmup = NoWarmup
  /\ cfg = [i \in Inst |-> DefaultConfig]
  /\ todo = [i \in Inst |-> <<1>>]
  /\ reg = [s \in Sigs |-> [process |-> None, initialized |-> FALSE]]
  /\ lock = [s \in Sigs |-> None]
  /\ waitq = [s \in Sigs |-> <<>>]
  /\ wp = [p \in Pids |-> UnbornProc]
  /\ svc = [i \in Inst |-> IdleSvc]
  /\ events = [i \in Inst |-> 0]
  /\ seg = NoSplit
  /\ agg = NoAggregator

NextLive ==
  \/ Next
  \/ \E p \in Pids : WorkerPartial(p)
  \/ \E p \in Pids : StalledExit(p)
  \/ \E i \in Inst : ReadPartial(i)
  \/ \E i \in Inst : Unblock(i)

\* The executor threads run and the clock advances; the worker is under no
\* obligation to print or to exit.
SpecLive ==
  InitLive /\ [][NextLive]_vars /\ \A i \in Inst : WF_vars(ThreadStep(i))

\* The frame loop of run_tts from the moment _send_command has returned the
\* audio of the only segment of an utterance: an instance with any frame
\* size up to MaxChunk (0: none configured) holds a successful generate
\* result of 1..MaxBuf bytes from its initialised worker.
InitFrames ==
  /\ warmup = NoWarmup
  /\ \E size \in 0..MaxChunk :
       cfg = [i \in Inst |-> IF i = 1 THEN [DefaultConfig EXCEPT !.chunk_size = size]
                                      ELSE DefaultConfig]
  /\ todo = [i \in Inst |-> <<>>]
  /\ reg = [s \in Sigs |-> IF s = BuildSignature(DefaultConfig)
                             THEN [process |-> 1, initialized |-> TRUE]
                             ELSE [process |-> None, initialized |-> FALSE]]
  /\ lock = [s \in Sigs |-> None]
  /\ waitq = [s \in Sigs |-> <<>>]
  /\ wp = [p \in Pids |->
            IF p = 1 THEN [UnbornProc EXCEPT !.st = "running",
                                             !.sig = BuildSignature(DefaultConfig),
                                             !.model = TRUE, !.inits = 1, !.acks = 1]
                     ELSE UnbornProc]
  /\ \E n \in 1..MaxBuf :
       LET c == [cmd |-> "generate", from |-> 1, call |-> 0, index |-> 0] IN
       svc = [i \in Inst |->
                IF i = 1
                  THEN [IdleSvc EXCEPT !.pc = "returned", !.process = 1, !.command = c,
                                       !.result = [success |-> TRUE, audio |-> n,
                                                   err |-> "", re |-> c],
                                       !.total_segments = 1,
                                       !.CHUNK_SIZE = cfg[1].chunk_size,
                                       !.out = <<TTSStartedFrame>>]
                  ELSE IdleSvc]
  /\ events = [i \in Inst |-> 0]
  /\ seg = NoSplit
  /\ agg = NoAggregator

NextFrames ==
  \/ \E i \in Inst : GenerateDone(i)
  \/ \E i \in Inst : EmitFrame(i)
  \/ \E i \in Inst : NextSegment(i)
  \/ \E i \in Inst : Close(i)
  \/ \E i \in Inst : HandleInterruption(i)

SpecFrames == InitFrames /\ [][NextFrames]_vars

\* _split_text_for_tts is called with a text and returns its segments.
SplitText ==
  /\ seg.stage = "call"
  /\ seg' = [seg EXCEPT !.stage = "returned",
                        !.segments = SplitTextForTts(seg.bounds, seg.text)]
  /\ UNCHANGED <<warmup, agg, events, cfg, todo, reg, lock, waitq, wp, svc>>

\* Any text of up to MaxText characters under any of the bounds.
InitSplit ==
  /\ warmup = NoWarmup
  /\ seg \in [stage : {"call"}, bounds : SplitBounds, text : Texts,
              segments : {<<>>}]
  /\ agg = NoAggregator
  /\ cfg = [i \in Inst |-> DefaultConfig]
  /\ todo = [i \in Inst |-> <<>>]
  /\ reg = [s \in Sigs |-> [process |-> None, initialized |-> FALSE]]
  /\ lock = [s \in Sigs |-> None]
  /\ waitq = [s \in Sigs |-> <<>>]
  /\ wp = [p \in Pids |-> UnbornProc]
  /\ svc = [i \in Inst |-> IdleSvc]
  /\ events = [i \in Inst |-> 0]

SpecSplit == InitSplit /\ [][SplitText]_vars

\* _chunk_by_words is called with a text and returns its chunks.
ChunkText ==
  /\ seg.stage = "chunk"
  /\ seg' = [seg EXCEPT !.stage = "chunked",
                        !.segments = ChunkByWords(seg.bounds, seg.text)]
  /\ UNCHANGED <<warmup, agg, events, cfg, todo, reg, lock, waitq, wp, svc>>

\* Any text of up to MaxText characters under any of the bounds.
InitChunk ==
  /\ warmup = NoWarmup
  /\ seg \in [stage : {"chunk"}, bounds : SplitBounds, text : Texts,
              segments : {<<>>}]
  /\ agg = NoAggregator
  /\ cfg = [i \in Inst |-> DefaultConfig]
  /\ todo = [i \in Inst |-> <<>>]
  /\ reg = [s \in Sigs |-> [process |-> None, initialized |-> FALSE]]
  /\ lock = [s \in Sigs |-> None]
  /\ waitq = [s \in Sigs |-> <<>>]
  /\ wp = [p \in Pids |-> UnbornProc]
  /\ svc = [i \in Inst |-> IdleSvc]
  /\ events = [i \in Inst |-> 0]

SpecChunk == InitChunk /\ [][ChunkText]_vars

\* An aggregator, enabled or not, is fed up to MaxFrames frames.
InitAgg ==
  /\ warmup = NoWarmup
  /\ agg \in {NewAggregator(e, m) : e \in BOOLEAN, m \in MinWordsArgs}
  /\ seg = NoSplit
  /\ cfg = [i \in Inst |-> DefaultConfig]
  /\ todo = [i \in Inst |-> <<>>]
  /\ reg = [s \in Sigs |-> [process |-> None, initialized |-> FALSE]]
  /\ lock = [s \in Sigs |-> None]
  /\ waitq = [s \in Sigs |-> <<>>]
  /\ wp = [p \in Pids |-> UnbornProc]
  /\ svc = [i \in Inst |-> IdleSvc]
  /\ events = [i \in Inst |-> 0]

NextAgg ==
  \/ \E kind \in {"interruption", "cancel"} : AggInterruption(kind)
  \/ AggResponseStart
  \/ AggResponseEnd
  \/ \E text \in Fragments : AggText(text)
  \/ AggOther

SpecAgg == InitAgg /\ [][NextAgg]_vars

\* ------------------------------------------------------------ /api/warmup
\* _warmup_signature: the configurations a request can find active differ in
\* the fields that make up the signature.
WarmupSignatures == {1, 2}

\* A task that asyncio still has to run or to finish.
Unfinished(t) == warmup.tasks[t].st # "done"

\* Task.cancel(): a request for cancellation, delivered when the task next
\* runs; without effect on a task that is done.
Cancel(tasks, t) ==
  IF t # None /\ tasks[t].st # "done"
    THEN [tasks EXCEPT ![t].cancel = TRUE]
    ELSE tasks

\* warmup_models: the handler has no await, it runs as one step.
WarmupRequest(signature) ==
  LET w == warmup
      answer(status) ==
        [status |-> status, signature |-> signature,
         stored |-> w.WARMUP_SIGNATURE]
  IN
  /\ IF w.WARMUP_STATE = "ready" /\ signature = w.WARMUP_SIGNATURE
       THEN warmup' = [w EXCEPT !.reply = answer(w.WARMUP_STATE)]
       ELSE IF w.WARMUP_TASK # None /\ signature = w.WARMUP_SIGNATURE
         THEN warmup' = [w EXCEPT !.reply = answer(w.WARMUP_STATE)]
         ELSE /\ Len(w.tasks) < MaxTasks
              /\ warmup' =
                   [WARMUP_STATE |-> "loading",
                    WARMUP_SIGNATURE |-> signature,
                    WARMUP_TASK |-> Len(w.tasks) + 1,
                    tasks |-> Append(Cancel(w.tasks, w.WARMUP_TASK),
                                     [st |-> "pending", signature |-> signature,
                                      cancel |-> FALSE]),
                    reply |-> [status |-> "loading", signature |-> signature,
                               stored |-> signature]]
  /\ UNCHANGED <<cfg, reg, lock, waitq, wp, svc, todo, events, seg, agg>>

\* _run_warmup up to the first suspension inside _warmup_models.
WarmupBegin(t) ==
  /\ t \in 1..Len(warmup.tasks)
  /\ warmup.tasks[t].st = "pending"
  /\ ~warmup.tasks[t].cancel
  /\ warmup' = [warmup EXCEPT !.tasks[t].st = "running"]
  /\ UNCHANGED <<cfg, reg, lock, waitq, wp, svc, todo, events, seg, agg>>

\* _run_warmup, lines 975-978 and 984: _warmup_models returned.
WarmupReady(t) ==
  /\ t \in 1..Len(warmup.tasks)
  /\ warmup.tasks[t].st = "running"
  /\ ~warmup.tasks[t].cancel
  /\ warmup' = [warmup EXCEPT !.tasks[t].st = "done",
                               !.WARMUP_STATE = "ready",
                               !.WARMUP_SIGNATURE = warmup.tasks[t].signature,
                               !.WARMUP_TASK = None]
  /\ UNCHANGED <<cfg, reg, lock, waitq, wp, svc, todo, events, seg, agg>>

\* _run_warmup, lines 979-984: _warmup_models raised an Exception.
WarmupError(t) ==
  /\ t \in 1..Len(warmup.tasks)
  /\ warmup.tasks[t].st = "running"
  /\ ~warmup.tasks[t].cancel
  /\ warmup' = [warmup EXCEPT !.tasks[t].st = "done",
                               !.WARMUP_STATE = "error",
                               !.WARMUP_TASK = None]
  /\ UNCHANGED <<cfg, reg, lock, waitq, wp, svc, todo, events, seg, agg>>

\* The cancellation reaches the task.  CancelledError is no Exception: of
\* _run_warmup only the finally clause runs (lines 983-984), and a task that
\* never began runs nothing of it.
WarmupCancelled(t) ==
  /\ t \in 1..Len(warmup.tasks)
  /\ Unfinished(t)
  /\ warmup.tasks[t].cancel
  /\ warmup' = [warmup EXCEPT !.tasks[t].st = "done",
                               !.WARMUP_TASK =
                                 IF warmup.tasks[t].st = "running"
                                   THEN None ELSE @]
  /\ UNCHANGED <<cfg, reg, lock, waitq, wp, svc, todo, events, seg, agg>>

InitWarmup ==
  /\ warmup = NoWarmup
  /\ cfg = [i \in Inst |-> DefaultConfig]
  /\ todo = [i \in Inst |-> <<>>]
  /\ reg = [s \in Sigs |-> [process |-> None, initialized |-> FALSE]]
  /\ lock = [s \in Sigs |-> None]
  /\ waitq = [s \in Sigs |-> <<>>]
  /\ wp = [p \in Pids |-> UnbornProc]
  /\ svc = [i \in Inst |-> IdleSvc]
  /\ events = [i \in Inst |-> 0]
  /\ seg = NoSplit
  /\ agg = NoAggregator

NextWarmup ==
  \/ \E signature \in WarmupSignatures : WarmupRequest(signature)
  \/ \E t \in 1..MaxTasks :
       WarmupBegin(t) \/ WarmupReady(t) \/ WarmupError(t) \/ WarmupCancelled(t)

SpecWarmup == InitWarmup /\ [][NextWarmup]_vars

\* ------------------------------------------------------------------ claims
\* C1: at most one worker process per signature is live at any time: no two
\* processes spawned for the same signature are both still running.
C1_OneLivePerSignature ==
  \A p, q \in Pids :
    (p # q /\ Running(p) /\ Running(q)) => wp[p].sig # wp[q].sig

\* C2: requests made through instances with identical signature values are
\* served by one worker process that is initialised once: no running process
\* has acknowledged more than one init.
C2_SharedInitCountOne ==
  \A p \in Pids : Running(p) => wp[p].acks <= 1

\* C3: instances whose voices differ never hold handles to the same running
\* worker process, whatever the model identifier.
C3_DistinctVoiceDistinctProcess ==
  \A i, j \in Inst :
    (/\ cfg[i].voice # cfg[j].voice
     /\ svc[i].process # None /\ Running(svc[i].process)
     /\ svc[j].process # None /\ Running(svc[j].process))
      => svc[i].process # svc[j].process

\* C3 as amended: for every model other than the Qwen3-TTS models, instances
\* that differ in voice have different signatures; for every model, the
\* running process an instance holds was spawned for that instance's own
\* signature, so instances with different signatures never share a process;
\* Qwen3-TTS instances of one model and sample rate share a signature
\* whatever their voice.
C3_SignatureSeparatesProcesses ==
  /\ \A i, j \in Inst :
       (~IsQwen(cfg[i].model) /\ cfg[i].voice # cfg[j].voice) => Sig(i) # Sig(j)
  /\ \A i, j \in Inst :
       (/\ IsQwen(cfg[i].model) /\ cfg[i].model = cfg[j].model
        /\ cfg[i].sample_rate = cfg[j].sample_rate) => Sig(i) = Sig(j)
  /\ \A i \in Inst :
       (svc[i].process # None /\ Running(svc[i].process))
         => wp[svc[i].process].sig = Sig(i)
  /\ \A i, j \in Inst :
       (/\ Sig(i) # Sig(j)
        /\ svc[i].process # None /\ Running(svc[i].process)
        /\ svc[j].process # None /\ Running(svc[j].process))
         => svc[i].process # svc[j].process

\* C3 witness: two Kokoro instances that differ in voice hold two different
\* running processes.
C3_Witness ==
  \E i, j \in Inst :
    /\ ~IsQwen(cfg[i].model) /\ cfg[i].model = cfg[j].model
    /\ cfg[i].voice # cfg[j].voice
    /\ svc[i].process # None /\ wp[svc[i].process].st = "running"
    /\ svc[j].process # None /\ wp[svc[j].process].st = "running"
    /\ svc[i].process # svc[j].process

\* C4: every change of a signature's registry entry (process handle,
\* initialized flag) is made by the instance that holds that signature's lock
\* during the step.
C4_MutationUnderLock ==
  [][\A s \in Sigs :
       reg'[s] # reg[s] =>
         \E i \in Inst :
           /\ lock[s] = i \/ (lock[s] = None /\ lock'[s] = i)
           /\ svc'[i] # svc[i]]_vars

\* C5: the write of a command and the read of its response are one critical
\* section per signature: a worker process has at most one exchange open,
\* holds no command and no line of another caller during it, and the
\* response a caller is handed answers that caller's command.
C5_ExchangeIsCriticalSection ==
  /\ \A i, j \in Inst :
       (i # j /\ svc[i].pc = "reading" /\ svc[j].pc = "reading")
         => svc[i].process # svc[j].process
  /\ \A i \in Inst :
       svc[i].pc = "reading" =>
         LET p == svc[i].process IN
         /\ \A k \in 1..Len(wp[p].stdin) : wp[p].stdin[k] = svc[i].command
         /\ \A k \in 1..Len(wp[p].stdout) : wp[p].stdout[k].re = svc[i].command
         /\ Len(wp[p].stdin) + Len(wp[p].stdout) <= 1
  /\ \A i \in Inst :
       (svc[i].pc = "returned" /\ svc[i].result.re # NoCmd)
         => svc[i].result.re = svc[i].command

\* C5 witness: a worker has printed the response of one caller's command while
\* another caller of the same signature waits for the lock.
C5_Witness ==
  \E i, j \in Inst :
    /\ i # j /\ Sig(i) = Sig(j)
    /\ svc[j].pc = "submitted"
    /\ svc[i].pc = "reading"
    /\ wp[svc[i].process].stdout # <<>>

\* C6: within one signature, commands reach the worker in submission order:
\* the caller that takes the lock is the one that submitted first.
C6_SubmissionOrder ==
  [][\A i \in Inst :
       (svc[i].pc = "submitted" /\ svc'[i].pc # "submitted")
         => Head(waitq[Sig(i)]) = i]_vars

\* C6 as amended: commands reach the worker in the order in which callers take
\* the signature's lock, one exchange at a time: whoever writes a command to
\* a process holds the lock of that process's signature, and the command is
\* its own.  Which of several waiting callers takes the lock next is not
\* determined by the order of submission.
C6_WriteOrderIsLockOrder ==
  [][\A p \in Pids :
       Len(wp'[p].stdin) > Len(wp[p].stdin) =>
         LET c == wp'[p].stdin[Len(wp'[p].stdin)] IN
         /\ lock[wp[p].sig] = c.from
         /\ svc[c.from].command = c
         /\ svc[c.from].process = p]_vars

\* C6 witness: a command is in the worker's pipe while another caller of the
\* signature waits for the lock.
C6_Witness ==
  \E i \in Inst :
    /\ svc[i].pc = "reading"
    /\ wp[svc[i].process].stdin = <<svc[i].command>>
    /\ waitq[Sig(i)] # <<>>

\* C7: once a caller has been handed the crash failure of a generate whose
\* worker died in flight, the registry entry is cleared, and it is not marked
\* initialized again except for a process that has acknowledged init: the
\* next synthesis call sends init to the new process.
C7_CrashRecovery ==
  \A i \in Inst :
    (/\ svc[i].pc = "returned" /\ svc[i].command.cmd = "generate"
     /\ svc[i].result.err = "Worker process died")
      => /\ svc[i].process = None
         /\ reg[Sig(i)].initialized
              => /\ reg[Sig(i)].process # None
                 /\ wp[reg[Sig(i)].process].acks > 0

\* C8: a command that times out ends with the worker process exited, the
\* registry entry cleared, the instance's handle dropped and the timeout
\* error returned.
C8_TimeoutResets ==
  [][\A i \in Inst :
       (/\ svc[i].pc = "reading" /\ svc'[i].pc = "returned"
        /\ svc'[i].result.err = "Worker response timeout")
         => /\ wp'[svc[i].process].st = "dead"
            /\ reg'[Sig(i)] = [process |-> None, initialized |-> FALSE]
            /\ svc'[i].process = None
            /\ ~svc'[i].result.success
            /\ lock'[Sig(i)] = None]_vars

\* C8 witness: a caller has been handed the timeout error of an exchange with
\* a worker that was still running.
C8_Witness ==
  \E i \in Inst :
    /\ svc[i].pc = "returned"
    /\ svc[i].result.err = "Worker response timeout"
    /\ reg[Sig(i)].process = None
    /\ \E p \in Pids : wp[p].st = "dead"

\* C9: what the read loop returns is never a line it has to discard: not a
\* blank or non-JSON line, and for generate not a success without audio; it
\* is the worker's JSON answer to the command.  A discarded line leaves the
\* caller waiting with the lock held.
C9_DiscardedNeverReturned ==
  /\ \A i \in Inst :
       svc[i].pc = "returned" =>
         /\ (svc[i].command.cmd = "generate" /\ svc[i].result.success)
              => svc[i].result.audio > 0
         /\ (svc[i].result.success \/ svc[i].result.err = "worker")
              => svc[i].result.re = svc[i].command
  /\ \A i \in Inst :
       svc[i].skipped > 0 => svc[i].pc = "reading" /\ lock[Sig(i)] = i

\* C9 witness: the read loop has discarded a line and the worker's answer is
\* the next line in the pipe.
C9_Witness ==
  \E i \in Inst :
    /\ svc[i].pc = "reading"
    /\ svc[i].skipped > 0
    /\ svc[i].command.cmd = "generate"
    /\ wp[svc[i].process].stdout # <<>>
    /\ Head(wp[svc[i].process].stdout).success

\* The audio frames of a frame sequence.
AudioFrames(out) == SelectSeq(out, LAMBDA f : f.type = "audio")

\* C10: once the epoch has moved after the first segment of an utterance has
\* emitted audio, the call emits no further audio frame and submits no
\* further generate command.
C10_InterruptionAbandonsLaterSegments ==
  [][\A i \in Inst :
       (/\ svc[i].pc \notin {"idle", "done"}
        /\ svc[i].interrupt_id # svc[i].start_interrupt_id
        /\ \E k \in 1..Len(svc[i].out) :
             svc[i].out[k].type = "audio" /\ svc[i].out[k].index = 0)
         => /\ AudioFrames(svc'[i].out) = AudioFrames(svc[i].out)
            /\ svc'[i].pc = "submitted" => svc[i].pc = "submitted"]_vars

\* C10 witness: a call for an utterance of several segments has ended after an
\* interruption with audio of its first segment only.
C10_Witness ==
  \E i \in Inst :
    /\ svc[i].pc = "done"
    /\ svc[i].interrupt_id # svc[i].start_interrupt_id
    /\ AudioFrames(svc[i].out) # <<>>
    /\ \A k \in 1..Len(svc[i].out) :
         svc[i].out[k].type = "audio"
           => svc[i].out[k].index = 0 /\ svc[i].out[k].total > 1

\* C11: once the epoch differs from the one the call captured, the call sends
\* no worker command (neither init nor generate), emits no audio frame, and
\* where it ends on the comparison it ends with nothing but the stop frame.
C11_NoCallAfterMismatch ==
  [][\A i \in Inst :
       (/\ svc[i].pc \notin {"idle", "done"}
        /\ svc[i].interrupt_id # svc[i].start_interrupt_id)
         => /\ svc'[i].pc = "submitted" => svc[i].pc = "submitted"
            /\ AudioFrames(svc'[i].out) = AudioFrames(svc[i].out)
            /\ (/\ svc'[i].pc = "done"
                /\ ~(svc[i].pc = "returned" /\ ~svc[i].result.success))
                 => svc'[i].out = Append(svc[i].out, TTSStoppedFrame)]_vars

\* C12: an interruption changes nothing of an exchange in flight (process,
\* registry entry, lock, the caller's position and command are as before);
\* the exchange of an interrupted generate goes on to its return; and the
\* audio it returns is dropped: the call ends with the stop frame alone.
C12_InFlightRunsToCompletion ==
  [][\A i \in Inst :
       /\ svc'[i].interrupt_id # svc[i].interrupt_id
            => /\ wp' = wp /\ reg' = reg /\ lock' = lock /\ waitq' = waitq
               /\ svc'[i].pc = svc[i].pc
               /\ svc'[i].command = svc[i].command
               /\ svc'[i].out = svc[i].out
       /\ (/\ svc[i].pc \in {"submitted", "locked", "reading"}
           /\ svc[i].command.cmd = "generate"
           /\ svc[i].interrupt_id # svc[i].start_interrupt_id)
            => svc'[i].pc \in {"submitted", "locked", "reading", "except", "returned"}
       /\ (/\ svc[i].pc = "returned" /\ svc'[i].pc # "returned"
           /\ svc[i].command.cmd = "generate"
           /\ svc[i].result.success
           /\ svc[i].interrupt_id # svc[i].start_interrupt_id)
            => /\ svc'[i].pc = "done"
               /\ svc'[i].out = Append(svc[i].out, TTSStoppedFrame)]_vars

\* C12 witness: the worker's audio answer to a generate is in the pipe of a
\* caller whose epoch has moved since the call began.
C12_Witness ==
  \E i \in Inst :
    /\ svc[i].pc = "reading"
    /\ svc[i].command.cmd = "generate"
    /\ svc[i].interrupt_id # svc[i].start_interrupt_id
    /\ wp[svc[i].process].stdout # <<>>
    /\ Head(wp[svc[i].process].stdout).audio > 0

\* C13: the interruption counter moves by exactly one with every
\* interruption event and with nothing else, and never down: starting from
\* zero, its value is the number of events.
C13_CounterCountsEvents ==
  [][\A i \in Inst :
       /\ svc'[i].interrupt_id - svc[i].interrupt_id = events'[i] - events[i]
       /\ svc'[i].interrupt_id >= svc[i].interrupt_id
       /\ svc[i].interrupt_id = events[i]]_vars

\* C13 witness: a call has ended and been closed after the instance was
\* interrupted during it.
C13_Witness ==
  \E i \in Inst :
    /\ events[i] > 0
    /\ svc[i].interrupt_id = events[i]
    /\ svc[i].pc = "idle"
    /\ todo[i] = <<>>

\* The characters of a text that are not blanks, in order.
NonSpace(t) == SelectSeq(t, LAMBDA ch : ~IsSpace(ch))

\* The concatenation of a sequence of texts.
RECURSIVE Flatten(_)
Flatten(texts) == IF texts = <<>> THEN <<>> ELSE Head(texts) \o Flatten(Tail(texts))

\* C14: every segment _split_text_for_tts returns is within sentence_max_chars
\* and sentence_max_words, or is a single word that alone exceeds the bound.
C14_SegmentsWithinBounds ==
  seg.stage = "returned" =>
    \A k \in 1..Len(seg.segments) :
      \/ /\ Len(seg.segments[k]) <= seg.bounds.max_chars
         /\ Len(SelectSeq(seg.segments[k], IsSpace)) + 1 <= seg.bounds.max_words
      \/ /\ \A n \in 1..Len(seg.segments[k]) : ~IsSpace(seg.segments[k][n])
         /\ Len(seg.segments[k]) > seg.bounds.max_chars

\* C15: the segments _split_text_for_tts returns, concatenated in order, hold
\* the characters of the text that are not blanks, all of them, once and in
\* their order.
C15_ContentPreserved ==
  seg.stage = "returned" =>
    NonSpace(Flatten(seg.segments)) = NonSpace(seg.text)

\* C15 witness: a text of several sentences with a long one among them has
\* been split into more than two segments.
C15_Witness ==
  /\ seg.stage = "returned"
  /\ Len(seg.segments) > 2
  /\ \E k \in 1..Len(seg.text) : seg.text[k] = "."
  /\ seg.text # NormalizeText(seg.text)

\* Fragments forming "Hi. Let's talk about the weather today.": a sentence of
\* one word followed by a sentence that brings the words to the minimum of 3.
Example == <<"a", ".", " ", "a", " ", "a", ".">>

\* C16: with aggregation enabled, what is held as carry is shorter than
\* min_words; while the response is in progress no text shorter than
\* min_words is pushed; a carry leaves only as the prefix, followed by one
\* blank, of the next text pushed; and the fragments of the example with
\* min_words 3 end with one text pushed, the whole text.
C16_ShortSentenceCarried ==
  [][(agg'.n # agg.n /\ agg.enabled) =>
       /\ agg'.carry # <<>> => Len(SplitWords(agg'.carry)) < agg.min_words
       /\ (agg'.last = "text" /\ agg.started) =>
            \A k \in 1..Len(agg'.pushed) :
              /\ agg'.pushed[k].type = "text"
              /\ Len(SplitWords(agg'.pushed[k].text)) >= agg.min_words
       /\ (agg'.last = "text" /\ agg.started /\ agg.carry # <<>>
             /\ agg'.pushed # <<>>) =>
            LET first == agg'.pushed[1].text IN
            /\ Len(first) > Len(agg.carry) + 1
            /\ SubSeq(first, 1, Len(agg.carry) + 1) = agg.carry \o <<" ">>
            /\ ~IsSpace(first[Len(agg.carry) + 2])
       /\ (agg'.last = "end" /\ agg.started /\ agg.min_words = 3
             /\ agg'.fed = Example) => agg'.sent = <<Example>>]_vars

\* C16 witness: the response of the example has ended with min_words 3.
C16_Witness ==
  /\ agg.enabled /\ agg.min_words = 3
  /\ agg.last = "end"
  /\ agg.fed = Example
  /\ agg.sent = <<Example>>

\* C17: end-of-response leaves buffer and carry empty, pushes a text whenever
\* carry or an unterminated tail remained, pushes a lone carry as it is, and
\* leaves none of the response's text unpushed.
C17_FlushAtEnd ==
  [][(agg'.n # agg.n /\ agg'.last = "end") =>
       /\ agg'.buffer = <<>> /\ agg'.carry = <<>>
       /\ (agg.carry # <<>> \/ Strip(agg.buffer) # <<>>)
            => TextsOf(agg'.pushed) # <<>>
       /\ (agg.carry # <<>> /\ Strip(agg.buffer) = <<>>)
            => TextsOf(agg'.pushed) = <<agg.carry>>
       /\ agg.started => NonSpace(Flatten(agg'.sent)) = NonSpace(agg'.fed)]_vars

\* C17 witness: a response of one short sentence has ended and the sentence
\* was pushed.
C17_Witness ==
  /\ agg.enabled /\ agg.min_words = 3
  /\ agg.last = "end"
  /\ agg.fed = <<"a", ".">>
  /\ agg.sent = <<agg.fed>>

\* C18: a start-of-interruption or cancel frame empties buffer and carry and
\* pushes no text; what is pushed and held afterwards is text received after
\* it; and an end-of-response that follows it pushes no text.
C18_ResetDiscards ==
  [][agg'.n # agg.n =>
       /\ agg'.last \in {"interruption", "cancel"} =>
            /\ agg'.buffer = <<>> /\ agg'.carry = <<>>
            /\ TextsOf(agg'.pushed) = <<>>
       /\ agg'.started =>
            NonSpace(Flatten(agg'.sent) \o agg'.carry \o agg'.buffer)
              = NonSpace(agg'.fed)
       /\ (agg'.last = "end" /\ ~agg.started) => TextsOf(agg'.pushed) = <<>>]_vars

\* C18 witness: an end-of-response has been handled after a reset that
\* discarded text.
C18_Witness ==
  /\ agg.last = "end"
  /\ agg.dropped # <<>>
  /\ TextsOf(agg.pushed) = <<>>

\* C19: with aggregation disabled, a fragment received during a response is
\* held and nothing is pushed; end-of-response pushes the held text as one
\* text frame, or nothing when it is blank.
C19_DisabledHoldsUntilEnd ==
  [][(agg'.n # agg.n /\ ~agg.enabled) =>
       /\ (agg'.last = "text" /\ agg.started) =>
            /\ agg'.pushed = <<>>
            /\ agg'.buffer = agg'.fed
            /\ agg'.carry = <<>>
       /\ agg'.last = "end" =>
            TextsOf(agg'.pushed) = IF Strip(agg.buffer) = <<>> THEN <<>>
                                   ELSE <<Strip(agg.buffer)>>]_vars

\* C19 witness: a disabled aggregator has pushed at end-of-response the two
\* sentences it was given, as one text.
C19_Witness ==
  /\ ~agg.enabled
  /\ agg.last = "end"
  /\ agg.fed = <<"a", ".", " ", "a", ".">>
  /\ agg.sent = <<agg.fed>>

\* C20: with no frame size configured, every segment's audio is emitted as
\* one frame holding the whole buffer: no segment has two audio frames, and
\* the frames of the segment being emitted are as long as its buffer.
C20_WholeBufferOneFrame ==
  \A i \in Inst :
    cfg[i].chunk_size = 0 =>
      /\ \A m, n \in 1..Len(svc[i].out) :
           (/\ svc[i].out[m].type = "audio" /\ svc[i].out[n].type = "audio"
            /\ svc[i].out[m].index = svc[i].out[n].index) => m = n
      /\ svc[i].pc = "frames" =>
           \A n \in 1..Len(svc[i].out) :
             (svc[i].out[n].type = "audio" /\ svc[i].out[n].index = svc[i].index)
               => svc[i].out[n].len = svc[i].audio_bytes

\* C21: with a frame size S > 0 configured, the frames of the segment being
\* emitted are non-empty consecutive slices of its audio: frame k starts at
\* byte (k-1)*S, every frame but the last holds exactly S bytes and the last
\* at most S; when the frame loop is exhausted the slices cover the audio to
\* its last byte.
C21_FramesPartitionAudio ==
  \A i \in Inst :
    (cfg[i].chunk_size > 0 /\ svc[i].pc = "frames") =>
      LET S == cfg[i].chunk_size
          fs == SelectSeq(svc[i].out,
                          LAMBDA f : f.type = "audio" /\ f.index = svc[i].index) IN
      /\ \A k \in 1..Len(fs) :
           /\ fs[k].at = (k - 1) * S
           /\ fs[k].len >= 1 /\ fs[k].len <= S
           /\ k < Len(fs) => fs[k].len = S
           /\ fs[k].at + fs[k].len <= svc[i].audio_bytes
      /\ svc[i].offset >= svc[i].audio_bytes =>
           /\ fs # <<>>
           /\ fs[Len(fs)].at + fs[Len(fs)].len = svc[i].audio_bytes

\* C21 witness: a segment's audio has gone out whole in several frames of
\* the configured size and a shorter last one.
C21_Witness ==
  \E i \in Inst :
    /\ cfg[i].chunk_size > 1
    /\ svc[i].pc = "frames"
    /\ svc[i].offset >= svc[i].audio_bytes
    /\ Len(AudioFrames(svc[i].out)) > 1
    /\ AudioFrames(svc[i].out)[Len(AudioFrames(svc[i].out))].len < cfg[i].chunk_size

\* C22: every audio frame carries the index of the segment whose generate
\* result it was cut from and the utterance's segment count; within one
\* utterance the indexes never decrease and stay below the count, and while
\* the generate command of a segment is under way every audio frame emitted
\* so far belongs to an earlier segment.
C22_FramesTaggedInOrder ==
  \A i \in Inst :
    LET fs == AudioFrames(svc[i].out) IN
    /\ \A k \in 1..Len(fs) :
         /\ fs[k].index < fs[k].total
         /\ k > 1 => /\ fs[k - 1].index <= fs[k].index
                     /\ fs[k - 1].total = fs[k].total
    /\ svc[i].pc \notin {"idle", "done"} =>
         \A k \in 1..Len(fs) :
           fs[k].total = svc[i].total_segments /\ fs[k].index <= svc[i].index
    /\ (svc[i].pc = "frames" /\ svc[i].offset > 0) =>
         /\ fs # <<>>
         /\ fs[Len(fs)].index = svc[i].index
         /\ svc[i].result.re.cmd = "generate"
         /\ svc[i].result.re.index = svc[i].index
    /\ (/\ svc[i].command.cmd = "generate"
        /\ svc[i].pc \in {"submitted", "locked", "reading", "except", "returned"}) =>
         \A k \in 1..Len(fs) : fs[k].index < svc[i].command.index

\* C22 witness: an utterance of MaxSegs segments has ended with audio frames
\* of every segment, the first segment's in two frames.
C22_Witness ==
  \E i \in Inst :
    LET fs == AudioFrames(svc[i].out) IN
    /\ svc[i].pc = "done"
    /\ \A n \in 0..(MaxSegs - 1) : \E k \in 1..Len(fs) : fs[k].index = n
    /\ Len(fs) > MaxSegs
    /\ fs[2].index = 0

C24_LastSegmentNotShort ==
  (seg.stage = "returned" /\ Len(seg.segments) > 1) =>
    Len(SplitWords(seg.segments[Len(seg.segments)])) >= seg.bounds.min_words

\* C25: a worker process is sent init before any generate: a generate
\* command is written only to a process that has acknowledged an init, also
\* when the process was spawned in place of one that had exited on its own
\* between two commands.
C25_InitBeforeGenerate ==
  [][\A i \in Inst :
       (/\ svc[i].pc = "locked" /\ svc'[i].pc = "reading"
        /\ svc[i].command.cmd = "generate"
        /\ wp[svc[i].process].st = "running")
         => wp[svc[i].process].acks > 0]_vars

\* C26: when the worker process cannot be spawned, _send_command returns the
\* startup failure and changes nothing: the registry (process handle and
\* initialized flag of every signature), every process and its pipes, the
\* caller's own handle and the lock are as they were before the attempt.
C26_FailedSpawnChangesNothing ==
  [][\A i \in Inst :
       (/\ svc[i].pc = "submitted" /\ svc'[i].pc = "returned"
        /\ svc'[i].result.err = "Failed to start worker")
         => /\ reg' = reg
            /\ wp' = wp
            /\ lock' = lock
            /\ svc'[i].process = svc[i].process
            /\ ~svc'[i].result.success]_vars

\* C26 witness: a spawn has failed while the registry held the handle of a
\* process that had exited and the initialized flag was set; both are still
\* there.
C26_Witness ==
  \E i \in Inst :
    /\ svc[i].pc = "returned"
    /\ svc[i].result.err = "Failed to start worker"
    /\ reg[Sig(i)].initialized
    /\ reg[Sig(i)].process # None
    /\ wp[reg[Sig(i)].process].st = "dead"

\* C27: an exchange that ends on end-of-stream while the process still runs,
\* or on an error object the worker printed, returns a failure and resets
\* nothing: the registry and the caller's handle are unchanged, the process
\* is neither terminated nor replaced, the lock is released; and a caller
\* whose process has not exited sends its next command to that process.
C27_FailureWithoutReset ==
  [][\A i \in Inst :
       /\ (/\ svc[i].pc = "reading" /\ svc'[i].pc = "returned"
           /\ svc'[i].result.err \in {"No response from worker", "worker"})
            => /\ ~svc'[i].result.success
               /\ reg' = reg
               /\ svc'[i].process = svc[i].process
               /\ \A p \in Pids : wp'[p].st = wp[p].st /\ wp'[p].stdin = wp[p].stdin
               /\ lock'[Sig(i)] = None
       /\ (/\ svc[i].pc = "submitted" /\ svc'[i].pc = "locked"
           /\ svc[i].process # None
           /\ wp[svc[i].process].st # "dead")
            => /\ svc'[i].process = svc[i].process
               /\ wp' = wp
               /\ reg' = reg]_vars

\* C27 witness: a generate exchange has ended on end-of-stream with the
\* process still running; the failure is returned, the lock is free, and the
\* registry still names the caller's process as initialised.
C27_Witness ==
  \E i \in Inst :
    /\ svc[i].pc = "returned"
    /\ svc[i].command.cmd = "generate"
    /\ svc[i].result.err = "No response from worker"
    /\ wp[svc[i].process].st = "eof"
    /\ reg[Sig(i)].process = svc[i].process
    /\ reg[Sig(i)].initialized
    /\ lock[Sig(i)] = None

\* C28 as claimed: with aggregation enabled, every text pushed in answer to
\* a text frame is a complete sentence of at least min_words words, whatever
\* frames came before.
C28_OnlySentencesForwarded ==
  [][(agg'.n # agg.n /\ agg.enabled /\ agg'.last = "text") =>
       \A k \in 1..Len(agg'.pushed) :
         LET t == agg'.pushed[k].text IN
         /\ Len(SplitWords(t)) >= agg.min_words
         /\ t[Len(t)] = "."]_vars

\* C28: with aggregation enabled, every text pushed in answer to a text
\* frame while a response is in progress is a stripped complete sentence (or
\* merge of sentences) of at least min_words words, and so is every text an
\* end-of-response pushes before its last; a text frame received while no
\* response is in progress is pushed as received, alone, and buffer and
\* carry are left alone.
C28_SentencesOnlyDuringResponse ==
  [][(agg'.n # agg.n /\ agg.enabled) =>
       /\ (agg'.last = "text" /\ agg.started) =>
            \A k \in 1..Len(agg'.pushed) :
              LET t == agg'.pushed[k].text IN
              /\ agg'.pushed[k].type = "text"
              /\ Len(SplitWords(t)) >= agg.min_words
              /\ t[Len(t)] = "." /\ ~IsSpace(t[1])
       /\ (agg'.last = "end" /\ agg.started) =>
            \A k \in 1..(Len(TextsOf(agg'.pushed)) - 1) :
              LET t == TextsOf(agg'.pushed)[k] IN
              /\ Len(SplitWords(t)) >= agg.min_words
              /\ t[Len(t)] = "."
       /\ (agg'.last = "text" /\ ~agg.started) =>
            /\ \E text \in Fragments : agg'.pushed = <<[type |-> "text", text |-> text]>>
            /\ agg'.buffer = agg.buffer /\ agg'.carry = agg.carry
            /\ ~agg'.started]_vars

\* C28 witness: after an interruption that discarded text of the response, a
\* fragment that is no sentence has been pushed as received.
C28_Witness ==
  /\ agg.enabled
  /\ agg.last = "text"
  /\ ~agg.started
  /\ agg.dropped # <<>>
  /\ agg.pushed = <<[type |-> "text", text |-> <<" ", "a">>]>>

\* C29: carry is cleared when it is prefixed onto a popped sentence, so it
\* goes into one place only: a text frame handled during a response leaves
\* in the texts it pushes, the new carry and the new buffer, taken together,
\* exactly the old carry, the old buffer and the fragment, each character
\* once and in order; and a carry that was pushed is not held any more.
C29_CarryUsedOnce ==
  [][(agg'.n # agg.n /\ agg.enabled /\ agg.started /\ agg'.last = "text") =>
       LET fragment == SubSeq(agg'.fed, Len(agg.fed) + 1, Len(agg'.fed)) IN
       /\ NonSpace(Flatten(TextsOf(agg'.pushed)) \o agg'.carry \o agg'.buffer)
            = NonSpace(agg.carry \o agg.buffer \o fragment)
       /\ (agg.carry # <<>> /\ agg'.pushed # <<>>) => agg'.carry = <<>>]_vars

\* C29 witness: a carry of two short sentences has been prefixed onto a third
\* and pushed with it; nothing is carried any more.
C29_Witness ==
  /\ agg.enabled /\ agg.min_words = 3 /\ agg.started
  /\ agg.last = "text"
  /\ agg.carry = <<>>
  /\ agg.pushed = <<[type |-> "text",
                     text |-> <<"a", ".", " ", "a", ".", " ", "a", ".">>]>>
  /\ agg.fed = <<"a", ".", " ", "a", ".", " ", "a", ".">>

\* The number of words in the first k of the chunks.
RECURSIVE WordsIn(_, _)
WordsIn(chunks, k) ==
  IF k = 0 THEN 0 ELSE WordsIn(chunks, k - 1) + Len(SplitWords(chunks[k]))

\* C30: the chunks _chunk_by_words returns are the words of the text in
\* order; a chunk is closed after a word, other than the last, exactly when
\* the next word would take it past sentence_max_chars or
\* sentence_max_words, or the word ends with a soft-break character and the
\* chunk with it has reached sentence_min_chars; and every chunk is
\* non-empty and, unless it is a single word, within both maxima.
C30_ChunkClosedExactlyWhen ==
  seg.stage = "chunked" =>
    LET c == seg.bounds
        words == SplitWords(seg.text)
        chunks == seg.segments
        closed == {WordsIn(chunks, k) : k \in 1..(Len(chunks) - 1)}
        Start(p) == IF \E b \in closed : b < p
                      THEN CHOOSE b \in closed : b < p /\ \A d \in closed : d < p => d <= b
                      ELSE 0
        Current(p) == SubSeq(words, Start(p) + 1, p)
        Overflow(p) == \/ Len(JoinWords(Append(Current(p), words[p + 1]))) > c.max_chars
                       \/ Len(Current(p)) + 1 > c.max_words
        SoftBreak(p) == /\ words[p][Len(words[p])] \in ChunkEnders
                        /\ Len(JoinWords(Current(p))) >= c.min_chars
    IN /\ SplitWords(JoinWords(chunks)) = words
       /\ \A p \in 1..(Len(words) - 1) :
            p \in closed <=> (Overflow(p) \/ SoftBreak(p))
       /\ \A k \in 1..Len(chunks) :
            /\ chunks[k] # <<>>
            /\ Len(SplitWords(chunks[k])) > 1 =>
                 /\ Len(chunks[k]) <= c.max_chars
                 /\ Len(SplitWords(chunks[k])) <= c.max_words

\* C31: whenever the registry's initialized flag of a signature is set, the
\* registry's handle for it names a process, and that process, while it
\* runs, has acknowledged an init command.
C31_InitializedMeansAcked ==
  \A s \in Sigs :
    reg[s].initialized =>
      /\ reg[s].process # None
      /\ wp[reg[s].process].st = "running" => wp[reg[s].process].acks > 0

\* C32: a worker process is sent init once: an init command is written only
\* to a process that has not acknowledged one, so a caller that starts while
\* another caller's initialisation is under way sends no init of its own.
C32_InitWrittenOnce ==
  [][\A i \in Inst :
       (/\ svc[i].pc = "locked" /\ svc'[i].pc = "reading"
        /\ svc[i].command.cmd = "init"
        /\ wp[svc[i].process].st = "running")
         => wp[svc[i].process].acks = 0]_vars

\* C33: every call of _send_command returns: a thread that has been given a
\* command, waits for the lock, holds it or reads from the worker, comes to
\* return a result and no longer holds the lock, whatever the worker does.
C33_SendCommandReturns ==
  \A i \in Inst :
    (svc[i].pc \in {"submitted", "locked", "reading", "blocked", "except"})
      ~> (svc[i].pc = "returned" /\ lock[Sig(i)] # i)

\* C34: worker state is kept per signature: a step changes the registry
\* entry or the lock of a signature only if an instance of that signature
\* takes it, a step of an instance changes no process spawned for another
\* signature, and a thread that wants the lock of its signature can take it
\* whenever that lock is free, whoever holds the others.
C34_SignaturesIndependent ==
  /\ [](\A i \in Inst :
          (svc[i].pc = "submitted" /\ lock[Sig(i)] = None) => ENABLED Acquire(i))
  /\ [][/\ \A s \in Sigs :
            (reg'[s] # reg[s] \/ lock'[s] # lock[s])
              => \E i \in Inst : Sig(i) = s /\ svc'[i] # svc[i]
        /\ \A p \in Pids :
            (/\ wp[p].st \in {"running", "eof"} /\ wp'[p] # wp[p]
             /\ svc' # svc)
              => \E i \in Inst : svc'[i] # svc[i] /\ wp[p].sig = Sig(i)]_vars

\* C34 witness: of two instances with different signatures one has had its
\* worker reset by a timeout while the other's registry entry names a
\* running, initialised process and the other holds its own lock.
C34_Witness ==
  \E i, j \in Inst :
    /\ Sig(i) # Sig(j)
    /\ svc[i].pc = "returned"
    /\ svc[i].result.err = "Worker response timeout"
    /\ reg[Sig(i)] = [process |-> None, initialized |-> FALSE]
    /\ reg[Sig(j)].initialized
    /\ reg[Sig(j)].process # None
    /\ wp[reg[Sig(j)].process].st = "running"
    /\ lock[Sig(j)] = j

\* C35: what a run_tts call has emitted begins with the started frame and
\* holds no other; the stopped frame is there exactly when the call has
\* ended, once and last; there is at most one error frame, and nothing but
\* the stopped frame comes after it.
C35_StartedFirstStoppedLast ==
  \A i \in Inst :
    LET out == svc[i].out
        At(type) == {k \in 1..Len(out) : out[k].type = type} IN
    /\ svc[i].pc = "idle" => out = <<>>
    /\ svc[i].pc # "idle" => At("started") = {1}
    /\ svc[i].pc = "done" => At("stopped") = {Len(out)}
    /\ svc[i].pc # "done" => At("stopped") = {}
    /\ Cardinality(At("error")) <= 1
    /\ \A k \in At("error") : svc[i].pc = "done" /\ k = Len(out) - 1

\* C35 witness: a call has ended on a generation failure after audio of an
\* earlier segment: started, audio, error, stopped.
C35_Witness ==
  \E i \in Inst :
    /\ svc[i].pc = "done"
    /\ Len(svc[i].out) = 4
    /\ svc[i].out[1].type = "started" /\ svc[i].out[2].type = "audio"
    /\ svc[i].out[3].type = "error" /\ svc[i].out[4].type = "stopped"
    /\ svc[i].process # None
    /\ wp[svc[i].process].st = "running"

\* C36: a call whose init has failed ends with the error frame and the
\* stopped frame, submits no generate and leaves the registry and the
\* processes as they are; a call that finds the initialized flag unset
\* submits init, never generate; and the thread that carries a command to a
\* process that is still running writes it to that same process.
C36_FailedInitIsRetried ==
  [][\A i \in Inst :
       /\ (/\ svc[i].pc = "returned" /\ svc[i].command.cmd = "init"
           /\ ~svc[i].result.success /\ svc'[i].pc # "returned")
            => /\ svc'[i].pc = "done"
               /\ Len(svc'[i].out) = Len(svc[i].out) + 2
               /\ svc'[i].out[Len(svc[i].out) + 1].type = "error"
               /\ svc'[i].out[Len(svc[i].out) + 2].type = "stopped"
               /\ reg' = reg /\ wp' = wp /\ waitq' = waitq
       /\ (svc[i].pc = "started" /\ svc'[i].pc # "started"
             /\ ~reg[Sig(i)].initialized)
            => svc'[i].pc = "submitted" /\ svc'[i].command.cmd = "init"
       /\ (/\ svc[i].pc = "locked" /\ svc'[i].pc = "reading"
           /\ svc[i].command.cmd = "init"
           /\ wp[svc[i].process].st = "running")
            => /\ svc'[i].process = svc[i].process
               /\ wp'[svc[i].process].stdin
                    = Append(wp[svc[i].process].stdin, svc[i].command)]_vars

\* C36 witness: init is about to be written again to the running process
\* that has answered one init with a failure.
C36_Witness ==
  \E i \in Inst :
    /\ svc[i].pc = "locked"
    /\ svc[i].command.cmd = "init"
    /\ ~reg[Sig(i)].initialized
    /\ reg[Sig(i)].process = svc[i].process
    /\ wp[svc[i].process].st = "running"
    /\ wp[svc[i].process].inits = 1
    /\ wp[svc[i].process].acks = 0
    /\ wp[svc[i].process].stdin = <<>>
    /\ todo[i] = <<>> /\ \A j \in Inst : j # i => svc[j].pc = "idle" /\ todo[j] = <<>>

\* C37: the segments returned for a text are non-empty, each but the last
\* has at least sentence_min_words words, and a text of blanks only (or no
\* text) returns no segment.
C37_OnlyLastSegmentShort ==
  seg.stage = "returned" =>
    /\ \A k \in 1..Len(seg.segments) :
         /\ seg.segments[k] # <<>>
         /\ k < Len(seg.segments) =>
              Len(SplitWords(seg.segments[k])) >= seg.bounds.min_words
    /\ (\A k \in 1..Len(seg.text) : seg.text[k] = " ") => seg.segments = <<>>

\* C37 witness: two one-word sentences were merged into the first of two
\* segments under a minimum of two words.
C37_Witness ==
  /\ seg.stage = "returned"
  /\ seg.bounds.min_words = 2
  /\ seg.text = <<".", " ", ".", " ", "a", ".">>
  /\ seg.segments = << <<".", " ", ".">>, <<"a", ".">> >>

\* C38: when an end-of-response has been handled, the texts pushed since the
\* response started, put together in the order they were pushed, hold the
\* characters other than blanks of the fragments received since then, each
\* once and in the order received, with aggregation enabled or not.
C38_ResponseTextConserved ==
  agg.last = "end" => NonSpace(Flatten(agg.sent)) = NonSpace(agg.fed)

\* C38 witness: a response of a sentence and an unterminated tail has ended
\* with two texts pushed, the blank between them gone.
C38_Witness ==
  /\ agg.enabled /\ agg.min_words = 1
  /\ agg.last = "end"
  /\ agg.fed = <<"a", ".", " ", "a">>
  /\ agg.sent = << <<"a", ".">>, <<"a">> >>

\* C39: a frame that is no text frame is pushed once by the call that
\* handles it, as the last frame the call pushes, and what the call pushes
\* before it is text: the text flushed at end-of-response, nothing for any
\* other frame; after an interruption or a cancel buffer and carry are empty
\* and no response is in progress.
C39_ControlFramesForwarded ==
  [][(agg'.n # agg.n /\ agg'.last # "text") =>
       LET pushed == agg'.pushed IN
       /\ pushed # <<>>
       /\ pushed[Len(pushed)].type = agg'.last
       /\ \A k \in 1..(Len(pushed) - 1) : pushed[k].type = "text"
       /\ agg'.last # "end" => Len(pushed) = 1
       /\ agg'.last \in {"interruption", "cancel"} =>
            agg'.buffer = <<>> /\ agg'.carry = <<>> /\ ~agg'.started
       /\ agg'.last = "other" =>
            /\ agg'.buffer = agg.buffer /\ agg'.carry = agg.carry
            /\ agg'.started = agg.started]_vars

\* C39 witness: an end-of-response has pushed the text it flushed and then
\* the end frame, after a frame of another type went through mid-response.
C39_Witness ==
  /\ agg.last = "end"
  /\ agg.n = 4
  /\ agg.fed = <<" ", "a">>
  /\ agg.pushed = <<[type |-> "text", text |-> <<"a">>],
                    [type |-> "end", text |-> <<>>]>>

\* C40: at most one warmup task is unfinished at any time, WARMUP_TASK names
\* a task exactly while that task is unfinished and not cancelled, and the
\* endpoint answers "ready" only to a request whose signature is the one
\* stored in WARMUP_SIGNATURE.
C40_OneWarmupTask ==
  LET live == {t \in 1..Len(warmup.tasks) :
                 Unfinished(t) /\ ~warmup.tasks[t].cancel}
  IN
  /\ Cardinality(live) <= 1
  /\ \A t \in 1..Len(warmup.tasks) : (t \in live) <=> (warmup.WARMUP_TASK = t)
  /\ warmup.reply.status = "ready" =>
       warmup.reply.signature = warmup.reply.stored

====
